---- MODULE Spec2Model ----
(***************************************************************************)
(* Model of qa_tools/prediction.py: quantum-alchemy predictions for atoms  *)
(* and dimers.  The two dataframes are sequences of rows (records); every  *)
(* public function is an action that draws its arguments from small sets   *)
(* and records what the call returns or raises.                            *)
(*                                                                         *)
(* Energies and polynomial coefficients are integers (a fixed-point unit), *)
(* so that sums and products are exact.                                    *)
(***************************************************************************)
EXTENDS Integers, Sequences, FiniteSets, TLC

VARIABLES df_qc, df_qats, call, result

vars == <<df_qc, df_qats, call, result>>

(***************************************************************************)
(* Bounds of the model.                                                    *)
(***************************************************************************)
\* Largest number of polynomial coefficients of a drawn coefficient sequence.
MaxCoeffs == 3
\* Coefficients of a drawn sequence lie in -MaxCoeff..MaxCoeff.
MaxCoeff == 1
\* Lambda values drawn for the Taylor evaluator lie in -MaxLambda..MaxLambda.
MaxLambda == 2
\* Largest number of lambda values in a list or an array.
MaxLambdas == 2
\* Largest number of rows of a dataframe drawn for _dimer_curve.
MaxRows == 3
\* Largest number of samples of a smooth curve drawn for dimer_minimum.
MaxSamples == 10

(***************************************************************************)
(* Values a call can produce.                                              *)
(***************************************************************************)
NaN == [kind |-> "nan"]
Float(v) == [kind |-> "float", val |-> v]
Array(a) == [kind |-> "array", val |-> a.v, ndim |-> a.ndim]
Dict(m) == [kind |-> "dict", map |-> m]
Raise(e) == [kind |-> "raise", exc |-> e]

IsRaise(r) == r.kind = "raise"

(***************************************************************************)
(* Sequence helpers.                                                       *)
(***************************************************************************)
\* s[:n]: the first n elements, all of s if it has fewer; a negative n
\* counts from the end, and leaves out the last -n elements.
Take(s, n) ==
    [i \in 1..(IF n >= Len(s) THEN Len(s)
               ELSE IF n >= 0 THEN n
               ELSE IF Len(s) + n >= 0 THEN Len(s) + n ELSE 0) |-> s[i]]

Reverse(s) == [i \in 1..Len(s) |-> s[Len(s) + 1 - i]]

Range(s) == {s[i] : i \in DOMAIN s}

RECURSIVE Pow(_, _)
Pow(x, n) == IF n = 0 THEN 1 ELSE x * Pow(x, n - 1)

RECURSIVE SumTo(_, _, _)
\* c[1] + c[2]*x + ... + c[n]*x^(n-1): the reference polynomial of the contract.
SumTo(c, n, x) == IF n = 0 THEN 0 ELSE SumTo(c, n - 1, x) + c[n] * Pow(x, n - 1)

RECURSIVE SeqsUpTo(_, _)
\* All sequences over S of length at most n.
SeqsUpTo(S, n) ==
    IF n = 0 THEN {<<>>}
    ELSE LET shorter == SeqsUpTo(S, n - 1)
         IN shorter \cup {Append(s, x) : s \in {t \in shorter : Len(t) = n - 1}, x \in S}

(***************************************************************************)
(* qats_prediction (prediction.py 95-116).                                 *)
(*                                                                         *)
(* A lambda argument is [type, v]: type is "scalar" (v an integer), "list" *)
(* or "ndarray" (v a sequence of integers); ndim is the number of axes of  *)
(* v.  A numpy array is modelled by nested sequences, so np.array([x]) is  *)
(* <<x>> with one more axis than x.                                        *)
(***************************************************************************)
Scalar(x) == [type |-> "scalar", ndim |-> 0, v |-> x]
List(xs) == [type |-> "list", ndim |-> 1, v |-> xs]
Ndarray(xs) == [type |-> "ndarray", ndim |-> 1, v |-> xs]

isinstance(x, t) == x.type = t

\* np.array([lambda_values]): one more (outer) axis of length 1.
WrapInArray(lambda_values) ==
    [type |-> "ndarray", ndim |-> lambda_values.ndim + 1, v |-> <<lambda_values.v>>]

\* Lines 113-115: the test is `not ndarray OR not list`.
NormalizeLambdas(lambda_values) ==
    IF ~isinstance(lambda_values, "ndarray") \/ ~isinstance(lambda_values, "list")
    THEN WrapInArray(lambda_values)
    ELSE lambda_values

MutTruncate(poly_coeffs, order) == Take(poly_coeffs, order)

\* poly_coeffs[:order+1]: a slice never raises, it stops at the end.
Truncate(poly_coeffs, order) == Take(poly_coeffs, order + 1)

RECURSIVE Horner(_, _, _, _)
\* np.polyval's loop: y = 0; for pv in p: y = y * x + pv.
Horner(p, i, x, y) == IF i > Len(p) THEN y ELSE Horner(p, i + 1, x, y * x + p[i])

RECURSIVE polyvalNested(_, _, _)
polyvalNested(p, v, ndim) ==
    IF ndim = 0 THEN Horner(p, 1, v, 0)
    ELSE [i \in 1..Len(v) |-> polyvalNested(p, v[i], ndim - 1)]

\* np.polyval(p, x), elementwise over the array x; the result has x's shape.
polyval(p, x) == [type |-> "ndarray", ndim |-> x.ndim, v |-> polyvalNested(p, x.v, x.ndim)]

MutQatsNoReverse(poly_coeffs, order, lambda_values) ==
    polyval(Truncate(poly_coeffs, order), NormalizeLambdas(lambda_values))

qats_prediction(poly_coeffs, order, lambda_values) ==
    polyval(Reverse(Truncate(poly_coeffs, order)), NormalizeLambdas(lambda_values))

(***************************************************************************)
(* Optional arguments: None is the empty tuple, a given value x is <<x>>.  *)
(***************************************************************************)
None == <<>>
Some(x) == <<x>>

(***************************************************************************)
(* Rows of the two dataframes.  A quantum-chemistry row carries            *)
(* lambda_value and electronic_energy, a QATS row carries poly_coeffs.     *)
(* bond_length is 0 for atoms (the column is unused there).                *)
(***************************************************************************)
QCRow(sys, Z, chg, mult, basis, lam, bl, e) ==
    [system |-> sys, atomic_numbers |-> Z, charge |-> chg, multiplicity |-> mult,
     n_electrons |-> (IF Len(Z) = 1 THEN Z[1] ELSE Z[1] + Z[2]) - chg,
     basis_set |-> basis, lambda_value |-> lam, bond_length |-> bl,
     electronic_energy |-> e]

QATSRow(sys, Z, chg, mult, basis, bl, coeffs) ==
    [system |-> sys, atomic_numbers |-> Z, charge |-> chg, multiplicity |-> mult,
     n_electrons |-> (IF Len(Z) = 1 THEN Z[1] ELSE Z[1] + Z[2]) - chg,
     basis_set |-> basis, bond_length |-> bl, poly_coeffs |-> coeffs]

\* The energy a row is ranked by: the lambda = 0 energy.
RowEnergy(r) ==
    IF "poly_coeffs" \in DOMAIN r THEN r.poly_coeffs[1] ELSE r.electronic_energy

\* df.query(...) / df[mask] is SelectSeq: the rows satisfying the test, in
\* table order.

\* The distinct values of df.system in order of first appearance.
RECURSIVE SystemsOf(_)
SystemsOf(df) ==
    IF df = <<>> THEN <<>>
    ELSE LET rest == SystemsOf(Take(df, Len(df) - 1))
             s == df[Len(df)].system
         IN IF s \in Range(rest) THEN rest ELSE Append(rest, s)

RECURSIVE Concat(_)
Concat(ss) == IF ss = <<>> THEN <<>> ELSE Concat(Take(ss, Len(ss) - 1)) \o ss[Len(ss)]

(***************************************************************************)
(* The services of qa_tools.utils, which prediction.py imports.            *)
(***************************************************************************)
\* The rows of one system ranked by ascending energy (ties in table order);
\* the result is the index in g of the level-th state, 0 if there is none.
RankedIndex(g, level) ==
    IF \E j \in DOMAIN g :
          Cardinality({i \in DOMAIN g :
              \/ RowEnergy(g[i]) < RowEnergy(g[j])
              \/ RowEnergy(g[i]) = RowEnergy(g[j]) /\ i < j}) = level
    THEN CHOOSE j \in DOMAIN g :
          Cardinality({i \in DOMAIN g :
              \/ RowEnergy(g[i]) < RowEnergy(g[j])
              \/ RowEnergy(g[i]) = RowEnergy(g[j]) /\ i < j}) = level
    ELSE 0

\* The state of one system: its only row if ignore_one_row allows it, else
\* the row ranked k-th, none if k = 0.
StateAt(g, k, ignore_one_row) ==
    IF Len(g) = 1 /\ ignore_one_row THEN [ok |-> TRUE, rows |-> g]
    ELSE IF k = 0 THEN [ok |-> FALSE, rows |-> <<>>]
    ELSE [ok |-> TRUE, rows |-> <<g[k]>>]

StatesOf(picks) ==
    IF \E i \in DOMAIN picks : ~picks[i].ok
    THEN [ok |-> FALSE, rows |-> <<>>]
    ELSE [ok |-> TRUE, rows |-> Concat([i \in DOMAIN picks |-> picks[i].rows])]

StatesOfSystems(df, systems, excitation_level, ignore_one_row) ==
    StatesOf([i \in DOMAIN systems |->
                 StateAt(SelectSeq(df, LAMBDA r : r.system = systems[i]),
                         RankedIndex(SelectSeq(df, LAMBDA r : r.system = systems[i]),
                                     excitation_level),
                         ignore_one_row)])

\* select_state(df, excitation_level, ignore_one_row): for every system of
\* df the row of its excitation_level-th state.  [ok, rows].
select_state(df, excitation_level, ignore_one_row) ==
    StatesOfSystems(df, SystemsOf(df), excitation_level, ignore_one_row)

\* The lowest row (first in table order) of every multiplicity of df.
LowestOfMultiplicity(df, i) ==
    /\ \A j \in DOMAIN df :
          df[j].multiplicity = df[i].multiplicity => RowEnergy(df[i]) <= RowEnergy(df[j])
    /\ \A j \in 1..(i - 1) :
          df[j].multiplicity = df[i].multiplicity => RowEnergy(df[i]) < RowEnergy(df[j])

MultiplicityStates(df) ==
    Concat([i \in DOMAIN df |-> IF LowestOfMultiplicity(df, i) THEN <<df[i]>> ELSE <<>>])

MultiplicityAt(g, k) ==
    IF Len(g) = 1 THEN [ok |-> TRUE, val |-> g[1].multiplicity]
    ELSE IF k = 0 THEN [ok |-> FALSE, val |-> 0]
    ELSE [ok |-> TRUE, val |-> g[k].multiplicity]

\* get_multiplicity(df, excitation_level): the multiplicity of the state
\* select_state ranks excitation_level-th.  [ok, val].
get_multiplicity(df, excitation_level) ==
    MultiplicityAt(MultiplicityStates(df),
                   RankedIndex(MultiplicityStates(df), excitation_level))

\* get_lambda_value(ref_atomic_numbers, target_atomic_numbers, specific_atom,
\* direction): the nuclear charge perturbation from reference to target.
\* [ok, val].
get_lambda_value(ref_atomic_numbers, target_atomic_numbers, specific_atom, direction) ==
    IF Len(ref_atomic_numbers) # Len(target_atomic_numbers)
    THEN [ok |-> FALSE, val |-> 0]
    ELSE IF Len(ref_atomic_numbers) = 1
    THEN [ok |-> TRUE, val |-> target_atomic_numbers[1] - ref_atomic_numbers[1]]
    ELSE IF specific_atom # None
    THEN [ok |-> TRUE,
          val |-> target_atomic_numbers[specific_atom[1] + 1]
                  - ref_atomic_numbers[specific_atom[1] + 1]]
    ELSE IF direction # None
    THEN LET j == IF ref_atomic_numbers[1] > ref_atomic_numbers[2] THEN 1 ELSE 2
         IN [ok |-> TRUE, val |-> target_atomic_numbers[j] - ref_atomic_numbers[j]]
    ELSE [ok |-> FALSE, val |-> 0]

\* get_qa_refs(df_qc, df_qats, target_label, target_n_electrons, basis_set):
\* the QATS rows of the other systems with the target's electron count.
get_qa_refs(qc, qats, target_label, target_n_electrons, basis_set) ==
    SelectSeq(qats, LAMBDA r : /\ r.system # target_label
                           /\ r.n_electrons = target_n_electrons
                           /\ r.basis_set = basis_set)

(***************************************************************************)
(* The per-reference loops of the alchemical predictors.  outs[i] is what  *)
(* the loop body does for systems[i]: [status |-> "ok", val |-> ...] (an   *)
(* entry is stored), "skip" (continue) or "raise" (the call ends there).   *)
(* The iterations share nothing but the predictions dictionary.            *)
(***************************************************************************)
BodyOk(v) == [status |-> "ok", val |-> v, exc |-> ""]
BodySkip == [status |-> "skip", val |-> <<>>, exc |-> ""]
BodyRaise(e) == [status |-> "raise", val |-> <<>>, exc |-> e]

MutRunLoopBreaksOnSkip(systems, outs) ==
    LET raising == {i \in DOMAIN systems : outs[i].status = "raise"}
        skipped == {i \in DOMAIN systems : outs[i].status = "skip"}
        stored == {i \in DOMAIN systems :
                      outs[i].status = "ok" /\ \A j \in skipped : i < j}
        Last(k) == CHOOSE i \in stored :
                      systems[i] = k /\ \A j \in stored : systems[j] = k => j <= i
    IN IF raising # {}
       THEN Raise(outs[CHOOSE i \in raising : \A j \in raising : i <= j].exc)
       ELSE Dict([k \in {systems[i] : i \in stored} |-> outs[Last(k)].val])

RunLoop(systems, outs) ==
    LET raising == {i \in DOMAIN systems : outs[i].status = "raise"}
        stored == {i \in DOMAIN systems : outs[i].status = "ok"}
        Last(k) == CHOOSE i \in stored :
                      systems[i] = k /\ \A j \in stored : systems[j] = k => j <= i
    IN IF raising # {}
       THEN Raise(outs[CHOOSE i \in raising : \A j \in raising : i <= j].exc)
       ELSE Dict([k \in {systems[i] : i \in stored} |-> outs[Last(k)].val])

MutApplySign(e_diff, change_signs) == e_diff

\* e_diff *= -1 when change_signs.
ApplySign(e_diff, change_signs) == IF change_signs THEN 0 - e_diff ELSE e_diff

(***************************************************************************)
(* energy_change_charge_qc_atom (prediction.py 118-207).                   *)
(* The function is written as the chain of its steps: each operator takes  *)
(* what the lines before it have computed.                                 *)
(***************************************************************************)
MutQcAtomFinalAtInitialCharge(qc, target_label, target_initial_charge, basis_set, n) ==
    SelectSeq(qc, LAMBDA r : /\ r.system = target_label
                         /\ r.lambda_value = 0
                         /\ r.charge = target_initial_charge
                         /\ r.basis_set = basis_set)

\* Lines 186-191: the final state is looked up by electron count.
QcAtomFinalRows(qc, target_label, target_initial_charge, basis_set, n) ==
    SelectSeq(qc, LAMBDA r : /\ r.system = target_label
                         /\ r.lambda_value = 0
                         /\ r.n_electrons = n
                         /\ r.basis_set = basis_set)

\* Lines 166-171, 274-277, 1081-1086, 1148-1153.
QcAtomInitialRows(qc, target_label, target_initial_charge, basis_set) ==
    SelectSeq(qc, LAMBDA r : /\ r.system = target_label
                         /\ r.charge = target_initial_charge
                         /\ r.lambda_value = 0
                         /\ r.basis_set = basis_set)

\* Lines 162-163 (and 269-270): the checks on delta_charge.
ChargeChecks(delta_charge, change_signs) ==
    IF delta_charge = 0 THEN "AssertionError"
    ELSE IF delta_charge < 0 /\ ~change_signs THEN "AssertionError"
    ELSE "ok"

\* What `x = select_state(...); assert len(x) == 1` raises, "ok" if nothing.
SingleState(sel) ==
    IF ~sel.ok THEN "StateSelectionError"
    ELSE IF Len(sel.rows) # 1 THEN "AssertionError"
    ELSE "ok"

MutQcAtomNoDataRaises == Raise("IndexError")

\* Lines 173-176, 193-196: return np.nan.
QcAtomNoData == NaN

\* Lines 204-207.
QcAtomDiff(target_initial_qc, final_sel, change_signs) ==
    IF SingleState(final_sel) # "ok" THEN Raise(SingleState(final_sel))
    ELSE Float(ApplySign(final_sel.rows[1].electronic_energy
                         - target_initial_qc.electronic_energy, change_signs))

\* Lines 193-201.
QcAtomFromFinal(target_initial_qc, final_rows, change_signs, ignore_one_row) ==
    IF Len(final_rows) = 0 THEN QcAtomNoData
    ELSE QcAtomDiff(target_initial_qc, select_state(final_rows, 0, ignore_one_row),
                    change_signs)

\* Lines 181-191.
QcAtomFromInitialState(qc, target_label, delta_charge, target_initial_charge, change_signs, basis_set, ignore_one_row, initial_sel) ==
    IF SingleState(initial_sel) # "ok" THEN Raise(SingleState(initial_sel))
    ELSE QcAtomFromFinal(initial_sel.rows[1],
             QcAtomFinalRows(qc, target_label, target_initial_charge, basis_set,
                             initial_sel.rows[1].n_electrons - delta_charge),
             change_signs, ignore_one_row)

\* Lines 173-180.
QcAtomFromInitial(qc, target_label, delta_charge, target_initial_charge, change_signs, basis_set, ignore_one_row, initial_rows) ==
    IF Len(initial_rows) = 0 THEN QcAtomNoData
    ELSE QcAtomFromInitialState(qc, target_label, delta_charge, target_initial_charge,
             change_signs, basis_set, ignore_one_row,
             select_state(initial_rows, 0, ignore_one_row))

energy_change_charge_qc_atom(qc, target_label, delta_charge, target_initial_charge, change_signs, basis_set, ignore_one_row) ==
    IF qc = <<>> THEN Raise("IndexError")
    ELSE IF Len(qc[1].atomic_numbers) = 2 THEN Raise("AssertionError")
    ELSE IF ChargeChecks(delta_charge, change_signs) # "ok"
    THEN Raise(ChargeChecks(delta_charge, change_signs))
    ELSE QcAtomFromInitial(qc, target_label, delta_charge, target_initial_charge,
             change_signs, basis_set, ignore_one_row,
             QcAtomInitialRows(qc, target_label, target_initial_charge, basis_set))

(***************************************************************************)
(* The body of the per-reference loop.  Both alchemical predictors for     *)
(* atoms and the one for dimers check the lambdas, consult the allow-list  *)
(* and combine the Taylor and the looked-up prediction in the same way.    *)
(***************************************************************************)
MutLambdasConsistent(lambda_initial, lambda_final) == TRUE

\* Lines 344, 974, 1204: assert lambda_initial == lambda_final.
LambdasConsistent(lambda_initial, lambda_final) == lambda_initial = lambda_final

MutLambdaConsidered(lambda_initial, considered_lambdas) == TRUE

\* Lines 345-347, 975-977, 1205-1207: FALSE means `continue`.
LambdaConsidered(lambda_initial, considered_lambdas) ==
    considered_lambdas = None \/ lambda_initial \in considered_lambdas[1]

MutLambdaChecksAllowListFirst(lambda_initial, lambda_final, considered_lambdas) ==
    IF ~lambda_initial.ok \/ ~lambda_final.ok THEN BodyRaise("LambdaError")
    ELSE IF ~LambdaConsidered(lambda_initial.val, considered_lambdas) THEN BodySkip
    ELSE IF ~LambdasConsistent(lambda_initial.val, lambda_final.val)
    THEN BodyRaise("AssertionError")
    ELSE [status |-> "predict", val |-> <<>>, exc |-> ""]

\* Lines 335-347, 966-977, 1195-1207: "raise", "skip" or "predict".
LambdaChecks(lambda_initial, lambda_final, considered_lambdas) ==
    IF ~lambda_initial.ok \/ ~lambda_final.ok THEN BodyRaise("LambdaError")
    ELSE IF ~LambdasConsistent(lambda_initial.val, lambda_final.val)
    THEN BodyRaise("AssertionError")
    ELSE IF ~LambdaConsidered(lambda_initial.val, considered_lambdas) THEN BodySkip
    ELSE [status |-> "predict", val |-> <<>>, exc |-> ""]

\* Lines 350-397, 982-1050, 1209-1249: the two `if` blocks of the body.
\* taylor_out is what the first block does, lookup_out what the second one
\* computes (<<e_diff>>), pred_diff the list of line 394.
CombinePredictions(taylor_out, lookup_out, use_ts, return_qats_vs_qa, pred_diff) ==
    IF (use_ts \/ return_qats_vs_qa) /\ taylor_out.status = "raise" THEN taylor_out
    ELSE IF ~(~use_ts \/ return_qats_vs_qa) THEN taylor_out
    ELSE IF lookup_out.status = "raise" THEN lookup_out
    ELSE IF return_qats_vs_qa
    THEN BodyOk(pred_diff)
    ELSE lookup_out

\* Lines 351-365: one prediction per order of the initial reference row.
AtomTaylorPreds(ref_initial, ref_final, lambda_initial, lambda_final, change_signs) ==
    BodyOk([k \in 1..Len(ref_initial.poly_coeffs) |->
        ApplySign(qats_prediction(ref_final.poly_coeffs, k - 1, Scalar(lambda_final)).v[1]
                  - qats_prediction(ref_initial.poly_coeffs, k - 1, Scalar(lambda_initial)).v[1],
                  change_signs)])

\* Lines 370-375, 381-386: the reference's quantum-chemistry rows at lambda.
RefQcRows(qc, system, lambda_value, charge, multiplicity, basis_set) ==
    SelectSeq(qc, LAMBDA r : /\ r.system = system
                         /\ r.lambda_value = lambda_value
                         /\ r.charge = charge
                         /\ r.multiplicity = multiplicity
                         /\ r.basis_set = basis_set)

\* Lines 376-391.
AtomLookupPred(ref_initial_qc, ref_final_qc, change_signs) ==
    IF Len(ref_initial_qc) # 1 THEN BodyRaise("AssertionError")
    ELSE IF ref_final_qc = <<>> THEN BodyRaise("IndexError")
    ELSE BodyOk(<<ApplySign(ref_final_qc[1].electronic_energy
                            - ref_initial_qc[1].electronic_energy, change_signs)>>)

MutAtomPredDiffKeepsTaylor(taylor_out, lookup_out) ==
    IF taylor_out.status # "ok" \/ lookup_out.status # "ok" THEN <<>>
    ELSE taylor_out.val

\* Lines 394, 1246: [i - e_diff for i in predictions[system]].
AtomPredDiff(taylor_out, lookup_out) ==
    IF taylor_out.status # "ok" \/ lookup_out.status # "ok" THEN <<>>
    ELSE [k \in DOMAIN taylor_out.val |-> taylor_out.val[k] - lookup_out.val[1]]

AtomRefCombine(taylor_out, lookup_out, use_ts, return_qats_vs_qa) ==
    CombinePredictions(taylor_out, lookup_out, use_ts, return_qats_vs_qa,
                       AtomPredDiff(taylor_out, lookup_out))

AtomRefPredict(qc, system, ref_initial, ref_final, lambda_initial, lambda_final, checks, change_signs, basis_set, use_ts, return_qats_vs_qa) ==
    IF checks.status # "predict" THEN checks
    ELSE AtomRefCombine(
             AtomTaylorPreds(ref_initial, ref_final, lambda_initial.val, lambda_final.val,
                             change_signs),
             AtomLookupPred(
                 RefQcRows(qc, system, lambda_initial.val, ref_initial.charge,
                           ref_initial.multiplicity, basis_set),
                 RefQcRows(qc, system, lambda_initial.val, ref_final.charge,
                           ref_final.multiplicity, basis_set),
                 change_signs),
             use_ts, return_qats_vs_qa)

AtomRefLambdas(qc, system, ref_initial, ref_final, lambda_initial, lambda_final, change_signs, basis_set, use_ts, considered_lambdas, return_qats_vs_qa) ==
    AtomRefPredict(qc, system, ref_initial, ref_final, lambda_initial, lambda_final,
                   LambdaChecks(lambda_initial, lambda_final, considered_lambdas),
                   change_signs, basis_set, use_ts, return_qats_vs_qa)

AtomRefRows(qc, system, initial_rows, final_rows, target_atomic_numbers, change_signs, basis_set, use_ts, considered_lambdas, return_qats_vs_qa) ==
    IF initial_rows = <<>> THEN BodyRaise("IndexError")
    ELSE LET lambda_initial ==
                 get_lambda_value(initial_rows[1].atomic_numbers, target_atomic_numbers,
                                  None, None)
         IN  IF ~lambda_initial.ok THEN BodyRaise("LambdaError")
             ELSE IF final_rows = <<>> THEN BodyRaise("IndexError")
             ELSE AtomRefLambdas(qc, system, initial_rows[1], final_rows[1],
                      lambda_initial,
                      get_lambda_value(final_rows[1].atomic_numbers, target_atomic_numbers,
                                       None, None),
                      change_signs, basis_set, use_ts, considered_lambdas,
                      return_qats_vs_qa)

\* Lines 332-397 (and 1194-1249 with change_signs = FALSE).
AtomRefBody(qc, ref_initial_qats, ref_final_qats, system, target_atomic_numbers, change_signs, basis_set, use_ts, considered_lambdas, return_qats_vs_qa) ==
    AtomRefRows(qc, system,
                SelectSeq(ref_initial_qats, LAMBDA r : r.system = system),
                SelectSeq(ref_final_qats, LAMBDA r : r.system = system),
                target_atomic_numbers, change_signs, basis_set, use_ts,
                considered_lambdas, return_qats_vs_qa)

\* Lines 328-399, 1192-1251: the loop over ref_initial_qats.system.
AtomLoop(qc, ref_initial_qats, ref_final_qats, target_atomic_numbers, change_signs, basis_set, use_ts, considered_lambdas, return_qats_vs_qa) ==
    RunLoop([i \in DOMAIN ref_initial_qats |-> ref_initial_qats[i].system],
            [i \in DOMAIN ref_initial_qats |->
                AtomRefBody(qc, ref_initial_qats, ref_final_qats,
                            ref_initial_qats[i].system, target_atomic_numbers,
                            change_signs, basis_set, use_ts, considered_lambdas,
                            return_qats_vs_qa)])

\* Lines 325-326, 1189-1190, then the loop.
AtomPredictions(qc, initial_sel_refs, final_sel_refs, target_atomic_numbers, change_signs, basis_set, use_ts, considered_lambdas, return_qats_vs_qa) ==
    IF ~initial_sel_refs.ok \/ ~final_sel_refs.ok THEN Raise("StateSelectionError")
    ELSE IF Len(initial_sel_refs.rows) # Len(final_sel_refs.rows)
    THEN Raise("AssertionError")
    ELSE AtomLoop(qc, initial_sel_refs.rows, final_sel_refs.rows, target_atomic_numbers,
                  change_signs, basis_set, use_ts, considered_lambdas, return_qats_vs_qa)

(***************************************************************************)
(* energy_change_charge_qa_atom (prediction.py 209-399).                   *)
(***************************************************************************)
MutAvailRefAnyCount(qats, target_label, target_final_n_electrons, basis_set) ==
    {qats[i].system : i \in {j \in DOMAIN qats :
         /\ qats[j].system # target_label
         /\ qats[j].basis_set = basis_set}}

\* Lines 292-298, 930-936: the systems with QATS rows at the final count.
AvailRefFinalSys(qats, target_label, target_final_n_electrons, basis_set) ==
    {qats[i].system : i \in {j \in DOMAIN qats :
         /\ qats[j].system # target_label
         /\ qats[j].n_electrons = target_final_n_electrons
         /\ qats[j].basis_set = basis_set}}

SystemSet(df) == {df[i].system : i \in DOMAIN df}

WithSystemIn(df, systems) == SelectSeq(df, LAMBDA r : r.system \in systems)

\* Lines 313-323.
QaAtomFinalRefs(qc, qats, target_label, target_final_n_electrons, basis_set, ignore_one_row, initial_sel_refs) ==
    select_state(
        WithSystemIn(get_qa_refs(qc, qats, target_label, target_final_n_electrons,
                                 basis_set),
                     SystemSet(initial_sel_refs.rows)),
        0, ignore_one_row)

\* Lines 299-326.
QaAtomFromRefs(qc, qats, target_label, target_atomic_numbers, target_final_n_electrons, change_signs, basis_set, use_ts, ignore_one_row, considered_lambdas, return_qats_vs_qa, initial_sel_refs) ==
    AtomPredictions(qc, initial_sel_refs,
        QaAtomFinalRefs(qc, qats, target_label, target_final_n_electrons, basis_set,
                        ignore_one_row, initial_sel_refs),
        target_atomic_numbers, change_signs, basis_set, use_ts, considered_lambdas,
        return_qats_vs_qa)

\* Lines 282-309.
QaAtomFromTarget(qc, qats, target_label, delta_charge, change_signs, basis_set, use_ts, ignore_one_row, considered_lambdas, return_qats_vs_qa, initial_sel) ==
    IF SingleState(initial_sel) # "ok" THEN Raise(SingleState(initial_sel))
    ELSE QaAtomFromRefs(qc, qats, target_label, initial_sel.rows[1].atomic_numbers,
             initial_sel.rows[1].n_electrons - delta_charge,
             change_signs, basis_set, use_ts, ignore_one_row, considered_lambdas,
             return_qats_vs_qa,
             select_state(
                 WithSystemIn(
                     get_qa_refs(qc, qats, target_label, initial_sel.rows[1].n_electrons,
                                 basis_set),
                     AvailRefFinalSys(qats, target_label,
                         initial_sel.rows[1].n_electrons - delta_charge, basis_set)),
                 0, ignore_one_row))

energy_change_charge_qa_atom(qc, qats, target_label, delta_charge, target_initial_charge, change_signs, basis_set, use_ts, ignore_one_row, considered_lambdas, return_qats_vs_qa) ==
    IF return_qats_vs_qa /\ ~use_ts THEN Raise("AssertionError")
    ELSE IF qc = <<>> THEN Raise("IndexError")
    ELSE IF Len(qc[1].atomic_numbers) = 2 THEN Raise("AssertionError")
    ELSE IF ChargeChecks(delta_charge, change_signs) # "ok"
    THEN Raise(ChargeChecks(delta_charge, change_signs))
    ELSE QaAtomFromTarget(qc, qats, target_label, delta_charge, change_signs, basis_set,
             use_ts, ignore_one_row, considered_lambdas, return_qats_vs_qa,
             select_state(
                 QcAtomInitialRows(qc, target_label, target_initial_charge, basis_set),
                 0, ignore_one_row))

(***************************************************************************)
(* mult_gap_qc_atom (prediction.py 1054-1103).                             *)
(***************************************************************************)
\* Lines 1092-1103.
MultGapQcDiff(initial_sel, final_sel) ==
    IF SingleState(initial_sel) # "ok" THEN Raise(SingleState(initial_sel))
    ELSE IF SingleState(final_sel) # "ok" THEN Raise(SingleState(final_sel))
    ELSE Float(final_sel.rows[1].electronic_energy
               - initial_sel.rows[1].electronic_energy)

MutMultGapQcOneRow(target_qc, ignore_one_row) ==
    IF Len(target_qc) = 0 THEN NaN
    ELSE MultGapQcDiff(select_state(target_qc, 0, ignore_one_row),
                       select_state(target_qc, 1, ignore_one_row))

\* Lines 1087-1099.
MultGapQcFromTarget(target_qc, ignore_one_row) ==
    IF Len(target_qc) = 0 \/ Len(target_qc) = 1 THEN NaN
    ELSE MultGapQcDiff(select_state(target_qc, 0, ignore_one_row),
                       select_state(target_qc, 1, ignore_one_row))

mult_gap_qc_atom(qc, target_label, target_charge, basis_set, ignore_one_row) ==
    MultGapQcFromTarget(QcAtomInitialRows(qc, target_label, target_charge, basis_set),
                        ignore_one_row)

(***************************************************************************)
(* mult_gap_qa_atom (prediction.py 1105-1251).                             *)
(***************************************************************************)
\* Lines 1177-1190, then the loop.
MultGapQaFromRefs(qc, ref_qats, target_atomic_numbers, basis_set, use_ts, ignore_one_row, considered_lambdas, return_qats_vs_qa) ==
    IF Len(ref_qats) = 0 \/ Len(ref_qats) = 1 THEN Dict(<<>>)
    ELSE AtomPredictions(qc, select_state(ref_qats, 0, ignore_one_row),
             select_state(ref_qats, 1, ignore_one_row), target_atomic_numbers,
             FALSE, basis_set, use_ts, considered_lambdas, return_qats_vs_qa)

\* Lines 1162-1176.
MultGapQaFromStates(qc, qats, target_label, n_electrons, initial_sel, final_sel, basis_set, use_ts, ignore_one_row, considered_lambdas, return_qats_vs_qa) ==
    IF SingleState(initial_sel) # "ok" THEN Raise(SingleState(initial_sel))
    ELSE IF SingleState(final_sel) # "ok" THEN Raise(SingleState(final_sel))
    ELSE MultGapQaFromRefs(qc,
             get_qa_refs(qc, qats, target_label, n_electrons, basis_set),
             initial_sel.rows[1].atomic_numbers, basis_set, use_ts, ignore_one_row,
             considered_lambdas, return_qats_vs_qa)

\* Lines 1154-1169.
MultGapQaFromTarget(qc, qats, target_label, target_qc, basis_set, use_ts, ignore_one_row, considered_lambdas, return_qats_vs_qa) ==
    IF Len(target_qc) = 0 \/ Len(target_qc) = 1 THEN Dict(<<>>)
    ELSE IF Cardinality({target_qc[i].n_electrons : i \in DOMAIN target_qc}) # 1
    THEN Raise("AssertionError")
    ELSE MultGapQaFromStates(qc, qats, target_label, target_qc[1].n_electrons,
             select_state(target_qc, 0, ignore_one_row),
             select_state(target_qc, 1, ignore_one_row),
             basis_set, use_ts, ignore_one_row, considered_lambdas, return_qats_vs_qa)

mult_gap_qa_atom(qc, qats, target_label, target_charge, basis_set, use_ts, ignore_one_row, considered_lambdas, return_qats_vs_qa) ==
    IF return_qats_vs_qa /\ ~use_ts THEN Raise("AssertionError")
    ELSE MultGapQaFromTarget(qc, qats, target_label,
             QcAtomInitialRows(qc, target_label, target_charge, basis_set),
             basis_set, use_ts, ignore_one_row, considered_lambdas, return_qats_vs_qa)

(***************************************************************************)
(* Bond curves and their minimum.                                          *)
(*                                                                         *)
(* The least-squares fit and the root finding are services of              *)
(* qa_tools.utils; their result is kept as the term that determines it:    *)
(* the window of samples fitted and the order of the polynomial.  Two      *)
(* minima are equal when they are the minimum of the same fit.             *)
(***************************************************************************)
\* 9 = 3.0 squared: the default zscore_cutoff of dimer_minimum, as the bound
\* of (e - mean)^2 / variance.
ZscoreCutoffSq == 9

\* The default poly_order of dimer_minimum.
DefaultPolyOrder == 4

\* np.argsort(df['bond_length'].values) sorts with numpy's default kind,
\* which is not stable: the rows come out by increasing bond length, and
\* rows of equal bond length in an order that depends on the build.  The
\* tie-break `ties` is a number that selects that order: its digits, in the
\* bases n, n - 1, ..., 1 for n tied rows, pick the next row among the tied
\* rows not yet placed, for each bond length in turn.  0 keeps the tied rows
\* in table order, and every order of the tied rows has its number.
RECURSIVE Factorial(_)
Factorial(n) == IF n <= 1 THEN 1 ELSE n * Factorial(n - 1)

RECURSIVE TiedOrder(_, _)
TiedOrder(idx, ties) ==
    IF idx = <<>> THEN <<>>
    ELSE <<idx[(ties % Len(idx)) + 1]>>
         \o TiedOrder([k \in 1..(Len(idx) - 1) |->
                           IF k < (ties % Len(idx)) + 1 THEN idx[k] ELSE idx[k + 1]],
                       ties \div Len(idx))

RECURSIVE ArgSortAbove(_, _, _)
\* The indices of the rows of s with a bond length in lengths, sorted.
ArgSortAbove(s, lengths, ties) ==
    IF lengths = {} THEN <<>>
    ELSE LET bl == CHOOSE x \in lengths : \A y \in lengths : x <= y
             tied == SelectSeq([i \in DOMAIN s |-> i], LAMBDA i : s[i].bond_length = bl)
         IN  TiedOrder(tied, ties)
             \o ArgSortAbove(s, lengths \ {bl}, ties \div Factorial(Len(tied)))

ArgSort(s, ties) == ArgSortAbove(s, {s[i].bond_length : i \in DOMAIN s}, ties)

\* The rows in the order of np.argsort(df['bond_length'].values).
ByBondLength(rows, order) == [k \in 1..Len(rows) |-> rows[order[k]]]

MutSortKeepsTableOrder(rows, ties) == rows

SortByBondLength(rows, ties) == ByBondLength(rows, ArgSort(rows, ties))

RECURSIVE SumSeq(_)
SumSeq(s) == IF s = <<>> THEN 0 ELSE s[Len(s)] + SumSeq(Take(s, Len(s) - 1))

\* The z-score test of fit_dimer_poly.  Spec 4.4 step 1 discards a point
\* whose energy's z-score, relative to the full curve's mean and standard
\* deviation, exceeds the cutoff.  It leaves open whether the standard
\* deviation divides by n or by n - 1 (ddof 0 or 1) and whether a point far
\* below the mean is discarded as well (two_sided); zscore = [ddof,
\* two_sided] selects the convention.  For a sample e of n samples with the
\* given sum and sum of squares, with a = n e - total and
\* b = n squares - total^2, z^2 > cutoff^2 is a^2 (n - ddof) > cutoff^2 n b,
\* that is a^2 - cutoff^2 b > ddof a^2 / n, decided in integers.  A curve
\* without variance has no defined z-score and no outlier.
Deviates(n, e, total, squares, zscore) ==
    /\ zscore.two_sided \/ n * e > total
    /\ (n * e - total) * (n * e - total) - ZscoreCutoffSq * (n * squares - total * total)
           > (zscore.ddof * (n * e - total) * (n * e - total)) \div n

IsOutlier(energies, i, zscore) ==
    Deviates(Len(energies), energies[i], SumSeq(energies),
             SumSeq([k \in DOMAIN energies |-> energies[k] * energies[k]]), zscore)

\* The indices of the samples the fit keeps.
KeptIndices(energies, remove_outliers, zscore) ==
    IF remove_outliers
    THEN SelectSeq([i \in DOMAIN energies |-> i], LAMBDA i : ~IsOutlier(energies, i, zscore))
    ELSE [i \in DOMAIN energies |-> i]

PickAt(s, keep) == [k \in DOMAIN keep |-> s[keep[k]]]

\* The anchor: the first sample of lowest energy.
AnchorIndex(en) ==
    CHOOSE i \in DOMAIN en : /\ \A j \in DOMAIN en : en[i] <= en[j]
                             /\ \A j \in 1..(i - 1) : en[j] > en[i]

\* The samples lo..hi as (bond length, energy) pairs.
WindowOf(bl, en, lo, hi) == [k \in 1..(hi - lo + 1) |-> <<bl[lo + k - 1], en[lo + k - 1]>>]

\* A fit needs poly_order + 1 samples.
FitOf(window, poly_order) ==
    [ok |-> ~(Len(window) < poly_order + 1), window |-> window, order |-> poly_order]

\* n_points samples on each side of the anchor, clipped to the curve.
FitAround(bl, en, anchor, n_points, poly_order) ==
    FitOf(WindowOf(bl, en,
                   IF anchor - n_points < 1 THEN 1 ELSE anchor - n_points,
                   IF anchor + n_points > Len(en) THEN Len(en) ELSE anchor + n_points),
          poly_order)

FitKept(bl, en, n_points, poly_order) ==
    IF en = <<>> THEN [ok |-> FALSE, window |-> <<>>, order |-> poly_order]
    ELSE FitAround(bl, en, AnchorIndex(en), n_points, poly_order)

FitKeepIndices(bond_lengths, energies, keep, n_points, poly_order) ==
    FitKept(PickAt(bond_lengths, keep), PickAt(energies, keep), n_points, poly_order)

\* fit_dimer_poly(bond_lengths, energies, n_points, poly_order,
\* remove_outliers, zscore_cutoff): [ok, window, order].
fit_dimer_poly(bond_lengths, energies, n_points, poly_order, remove_outliers, zscore) ==
    FitKeepIndices(bond_lengths, energies, KeptIndices(energies, remove_outliers, zscore),
                   n_points, poly_order)

\* find_poly_min(bond_lengths_fit, poly_coeffs): the minimum of the fit.
find_poly_min(fit) == [window |-> fit.window, order |-> fit.order]

\* Lines 438-441.  [ok, eq]: eq stands for the pair (eq_bond_length, eq_energy).
MinimumOfFit(fit) ==
    IF ~fit.ok THEN [ok |-> FALSE, eq |-> <<>>]
    ELSE [ok |-> TRUE, eq |-> find_poly_min(fit)]

\* dimer_minimum (prediction.py 401-441).
dimer_minimum(bond_lengths, energies, n_points, poly_order, remove_outliers, zscore) ==
    MinimumOfFit(fit_dimer_poly(bond_lengths, energies, n_points, poly_order,
                                remove_outliers, zscore))

\* A failed assertion of _dimer_curve.
CurveFailed == [ok |-> FALSE, bond_lengths |-> <<>>, energies |-> <<>>]

MutTaylorCurveFullOrder(sorted, lambda_value, qats_order) ==
    [ok |-> TRUE,
     bond_lengths |-> [k \in DOMAIN sorted |-> sorted[k].bond_length],
     energies |-> [k \in DOMAIN sorted |->
         qats_prediction(sorted[k].poly_coeffs, Len(sorted[k].poly_coeffs) - 1,
                         Scalar(lambda_value)).v[1]]]

\* Lines 478-490: the Taylor-series energy of every bond length.
TaylorCurve(sorted, lambda_value, qats_order) ==
    [ok |-> TRUE,
     bond_lengths |-> [k \in DOMAIN sorted |-> sorted[k].bond_length],
     energies |-> [k \in DOMAIN sorted |->
         qats_prediction(sorted[k].poly_coeffs, qats_order, Scalar(lambda_value)).v[1]]]

\* Lines 498-501: the computed energy of every bond length.
LookupCurve(sorted) ==
    [ok |-> TRUE,
     bond_lengths |-> [k \in DOMAIN sorted |-> sorted[k].bond_length],
     energies |-> [k \in DOMAIN sorted |-> sorted[k].electronic_energy]]

\* Lines 469-471: one system, one charge, one multiplicity.
OneState(df) ==
    /\ Cardinality({df[i].system : i \in DOMAIN df}) = 1
    /\ Cardinality({df[i].charge : i \in DOMAIN df}) = 1
    /\ Cardinality({df[i].multiplicity : i \in DOMAIN df}) = 1

\* _dimer_curve (prediction.py 443-501).  [ok, bond_lengths, energies].
dimer_curve(df, lambda_value, use_ts, qats_order, ties) ==
    IF ~OneState(df) THEN CurveFailed
    ELSE IF Len(df[1].atomic_numbers) # 2 THEN CurveFailed
    ELSE IF use_ts
    THEN IF "poly_coeffs" \notin DOMAIN df[1] \/ qats_order = None THEN CurveFailed
         ELSE TaylorCurve(SortByBondLength(df, ties), lambda_value[1], qats_order[1])
    ELSE IF "electronic_energy" \notin DOMAIN df[1] \/ qats_order # None THEN CurveFailed
    ELSE LookupCurve(SortByBondLength(
             IF lambda_value # None
             THEN SelectSeq(df, LAMBDA r : r.lambda_value = lambda_value[1])
             ELSE df,
             ties))

MinimumResult(m) ==
    IF ~m.ok THEN [ok |-> FALSE, exc |-> "FitError", eq |-> <<>>]
    ELSE [ok |-> TRUE, exc |-> "", eq |-> m.eq]

MinimumOfCurve(curve, n_points, poly_order, remove_outliers, zscore) ==
    IF ~curve.ok THEN [ok |-> FALSE, exc |-> "AssertionError", eq |-> <<>>]
    ELSE MinimumResult(dimer_minimum(curve.bond_lengths, curve.energies, n_points,
                                     poly_order, remove_outliers, zscore))

\* The curve of df and its minimum: _dimer_curve followed by dimer_minimum.
CurveMinimum(df, lambda_value, use_ts, qats_order, n_points, poly_order, remove_outliers, zscore, ties) ==
    MinimumOfCurve(dimer_curve(df, lambda_value, use_ts, qats_order, ties),
                   n_points, poly_order, remove_outliers, zscore)

\* e_target_final - e_target_initial, times -1 when change_signs: the
\* difference of two minima, kept as a term.
EqDiff(eq_final, eq_initial, change_signs) ==
    [final |-> eq_final, initial |-> eq_initial, negated |-> change_signs]

\* Line 1046: [i - e_diff for i in predictions[system]], each difference
\* kept as a term.
DimerPredDiff(taylor_out, lookup_out) ==
    IF taylor_out.status # "ok" \/ lookup_out.status # "ok" THEN <<>>
    ELSE [k \in DOMAIN taylor_out.val |->
             [taylor |-> taylor_out.val[k], minus |-> lookup_out.val[1]]]

(***************************************************************************)
(* energy_change_charge_qc_dimer (prediction.py 725-820).  `a` is the      *)
(* record of the call's arguments.                                         *)
(***************************************************************************)
\* Lines 776-779, 900-903, 918-922: the target's lambda = 0 rows at a charge.
DimerTargetRows(qc, target_label, charge, basis_set) ==
    SelectSeq(qc, LAMBDA r : /\ r.system = target_label
                         /\ r.charge = charge
                         /\ r.lambda_value = 0
                         /\ r.basis_set = basis_set)

\* Lines 798-803: the target's lambda = 0 rows with n electrons.
QcDimerFinalRows(qc, target_label, n, basis_set) ==
    SelectSeq(qc, LAMBDA r : /\ r.system = target_label
                         /\ r.lambda_value = 0
                         /\ r.n_electrons = n
                         /\ r.basis_set = basis_set)

WithMultiplicity(df, multiplicity) == SelectSeq(df, LAMBDA r : r.multiplicity = multiplicity)

\* Lines 817-820.
QcDimerDiff(a, initial_min, final_min) ==
    IF ~final_min.ok THEN Raise(final_min.exc)
    ELSE [kind |-> "float", val |-> EqDiff(final_min.eq, initial_min.eq, a.change_signs)]

\* Lines 804-816.
QcDimerFromFinalMultiplicity(a, initial_min, final_all, ground_multiplicity_final) ==
    IF ~ground_multiplicity_final.ok THEN Raise("StateSelectionError")
    ELSE QcDimerDiff(a, initial_min,
             CurveMinimum(WithMultiplicity(final_all, ground_multiplicity_final.val),
                          None, FALSE, None, a.n_points, a.poly_order, a.remove_outliers, a.zscore, a.ties))

\* Lines 785-803.
QcDimerFromInitialMin(qc, a, target_final_n_electrons, initial_min) ==
    IF ~initial_min.ok THEN Raise(initial_min.exc)
    ELSE QcDimerFromFinalMultiplicity(a, initial_min,
             QcDimerFinalRows(qc, a.target_label, target_final_n_electrons, a.basis_set),
             get_multiplicity(
                 QcDimerFinalRows(qc, a.target_label, target_final_n_electrons,
                                  a.basis_set),
                 0))

\* Lines 784-796.
QcDimerFromGround(qc, a, target_initial_qc) ==
    IF target_initial_qc = <<>> THEN Raise("IndexError")
    ELSE QcDimerFromInitialMin(qc, a, target_initial_qc[1].n_electrons - a.delta_charge,
             CurveMinimum(target_initial_qc, None, FALSE, None, a.n_points, a.poly_order,
                          a.remove_outliers, a.zscore, a.ties))

\* Lines 780-783.
QcDimerFromMultiplicity(qc, a, initial_all, ground_multiplicity_initial) ==
    IF ~ground_multiplicity_initial.ok THEN Raise("StateSelectionError")
    ELSE QcDimerFromGround(qc, a,
             WithMultiplicity(initial_all, ground_multiplicity_initial.val))

energy_change_charge_qc_dimer(qc, target_label, delta_charge, target_initial_charge, change_signs, basis_set, n_points, poly_order, remove_outliers, zscore, ties) ==
    IF qc = <<>> THEN Raise("IndexError")
    ELSE IF Len(qc[1].atomic_numbers) # 2 THEN Raise("AssertionError")
    ELSE QcDimerFromMultiplicity(qc,
             [target_label |-> target_label, delta_charge |-> delta_charge,
              change_signs |-> change_signs, basis_set |-> basis_set,
              n_points |-> n_points, poly_order |-> poly_order,
              remove_outliers |-> remove_outliers, zscore |-> zscore,
              ties |-> ties],
             DimerTargetRows(qc, target_label, target_initial_charge, basis_set),
             get_multiplicity(
                 DimerTargetRows(qc, target_label, target_initial_charge, basis_set), 0))

(***************************************************************************)
(* energy_change_charge_qa_dimer (prediction.py 822-1052).                 *)
(***************************************************************************)
\* Lines 985-1001 and 1017-1040: every dimer_minimum call of the alchemical
\* dimer predictor passes n_points and remove_outliers only, so the fit has
\* dimer_minimum's default order whatever poly_order the caller gave.
QaDimerFitOrder(poly_order) == DefaultPolyOrder

\* Lines 984-1001, for every order: the minima of the two Taylor curves.
DimerTaylorMinima(a, ref_initial, ref_final, lambda_initial, lambda_final) ==
    [k \in 1..Len(ref_initial[1].poly_coeffs) |->
        [initial |-> CurveMinimum(ref_initial, Some(lambda_initial), TRUE, Some(k - 1),
                         a.n_points, QaDimerFitOrder(a.poly_order), a.remove_outliers, a.zscore, a.ties),
         final |-> CurveMinimum(ref_final, Some(lambda_final), TRUE, Some(k - 1),
                       a.n_points, QaDimerFitOrder(a.poly_order), a.remove_outliers, a.zscore, a.ties)]]

\* What the first failing call of the loop over the orders raises.
FirstFailure(minima, k) ==
    IF ~minima[k].initial.ok THEN minima[k].initial.exc ELSE minima[k].final.exc

\* Lines 982-1007.
DimerTaylorPreds(minima, change_signs) ==
    IF \E k \in DOMAIN minima : ~minima[k].initial.ok \/ ~minima[k].final.ok
    THEN BodyRaise(FirstFailure(minima,
             CHOOSE k \in DOMAIN minima :
                 /\ ~minima[k].initial.ok \/ ~minima[k].final.ok
                 /\ \A j \in 1..(k - 1) : minima[j].initial.ok /\ minima[j].final.ok))
    ELSE BodyOk([k \in DOMAIN minima |->
                    EqDiff(minima[k].final.eq, minima[k].initial.eq, change_signs)])

\* Lines 1017-1043.
DimerLookupPred(lookup_initial, lookup_final, change_signs) ==
    IF ~lookup_initial.ok THEN BodyRaise(lookup_initial.exc)
    ELSE IF ~lookup_final.ok THEN BodyRaise(lookup_final.exc)
    ELSE BodyOk(<<EqDiff(lookup_final.eq, lookup_initial.eq, change_signs)>>)

DimerRefCombine(taylor_out, lookup_out, use_ts, return_qats_vs_qa) ==
    CombinePredictions(taylor_out, lookup_out, use_ts, return_qats_vs_qa,
                       DimerPredDiff(taylor_out, lookup_out))

DimerRefPredict(qc, a, system, ref_initial, ref_final, lambda_initial, lambda_final, checks) ==
    IF checks.status # "predict" THEN checks
    ELSE DimerRefCombine(
             DimerTaylorPreds(
                 DimerTaylorMinima(a, ref_initial, ref_final, lambda_initial.val,
                                   lambda_final.val),
                 a.change_signs),
             DimerLookupPred(
                 CurveMinimum(
                     RefQcRows(qc, system, lambda_initial.val, ref_initial[1].charge,
                               ref_initial[1].multiplicity, a.basis_set),
                     Some(lambda_initial.val), FALSE, None, a.n_points,
                     QaDimerFitOrder(a.poly_order), a.remove_outliers, a.zscore, a.ties),
                 CurveMinimum(
                     RefQcRows(qc, system, lambda_initial.val, ref_final[1].charge,
                               ref_final[1].multiplicity, a.basis_set),
                     Some(lambda_final.val), FALSE, None, a.n_points,
                     QaDimerFitOrder(a.poly_order), a.remove_outliers, a.zscore, a.ties),
                 a.change_signs),
             a.use_ts, a.return_qats_vs_qa)

DimerRefLambdas(qc, a, system, ref_initial, ref_final, lambda_initial, lambda_final) ==
    DimerRefPredict(qc, a, system, ref_initial, ref_final, lambda_initial, lambda_final,
                    LambdaChecks(lambda_initial, lambda_final, a.considered_lambdas))

\* Lines 963-973: the lambda of the first initial row is computed before the
\* first final row is read.
DimerRefRows(qc, a, system, target_atomic_numbers, ref_initial, ref_final) ==
    IF ref_initial = <<>> THEN BodyRaise("IndexError")
    ELSE LET lambda_initial ==
                 get_lambda_value(ref_initial[1].atomic_numbers, target_atomic_numbers,
                                  a.lambda_specific_atom, a.lambda_direction)
         IN  IF ~lambda_initial.ok THEN BodyRaise("LambdaError")
             ELSE IF ref_final = <<>> THEN BodyRaise("IndexError")
             ELSE DimerRefLambdas(qc, a, system, ref_initial, ref_final, lambda_initial,
                      get_lambda_value(ref_final[1].atomic_numbers, target_atomic_numbers,
                                       a.lambda_specific_atom, a.lambda_direction))

\* Lines 962-1050: the body of the loop for one system.
DimerRefBody(qc, a, ref_initial_qats, ref_final_qats, system, target_atomic_numbers) ==
    DimerRefRows(qc, a, system, target_atomic_numbers,
                 SelectSeq(ref_initial_qats, LAMBDA r : r.system = system),
                 SelectSeq(ref_final_qats, LAMBDA r : r.system = system))

\* Lines 940-947.
QaDimerInitialRefs(qats, a, target_initial_n_electrons, target_final_n_electrons, ground_multiplicity_initial) ==
    WithSystemIn(
        SelectSeq(qats, LAMBDA r : /\ r.n_electrons = target_initial_n_electrons
                               /\ r.basis_set = a.basis_set
                               /\ r.multiplicity = ground_multiplicity_initial),
        AvailRefFinalSys(qats, a.target_label, target_final_n_electrons, a.basis_set))

\* Lines 951-958.
QaDimerFinalRefs(qats, a, target_final_n_electrons, ground_multiplicity_final, ref_initial_qats) ==
    WithSystemIn(
        SelectSeq(qats, LAMBDA r : /\ r.n_electrons = target_final_n_electrons
                               /\ r.basis_set = a.basis_set
                               /\ r.multiplicity = ground_multiplicity_final),
        SystemSet(ref_initial_qats))

\* The order in which a set of system labels is iterated (lines 593, 962):
\* the order of the hash table, which changes with the hash seed of the
\* interpreter.  hash_order is a number that selects the order among all
\* orders of the systems, as a tie-break does for tied rows; 0 is the order
\* of the table.
IterationOrder(in_table_order, hash_order) == TiedOrder(in_table_order, hash_order)

\* Lines 960-1052.
QaDimerRun(qc, a, target_atomic_numbers, ref_initial_qats, ref_final_qats, systems) ==
    RunLoop(systems,
            [i \in DOMAIN systems |->
                DimerRefBody(qc, a, ref_initial_qats, ref_final_qats, systems[i],
                             target_atomic_numbers)])

\* Lines 958-961.
QaDimerLoop(qc, a, target_atomic_numbers, ref_initial_qats, ref_final_qats) ==
    IF Len(ref_initial_qats) # Len(ref_final_qats) THEN Raise("AssertionError")
    ELSE QaDimerRun(qc, a, target_atomic_numbers, ref_initial_qats, ref_final_qats,
                    IterationOrder(SystemsOf(ref_initial_qats), a.hash_order))

QaDimerFromInitialRefs(qc, qats, a, target_atomic_numbers, target_final_n_electrons, ground_multiplicity_final, ref_initial_qats) ==
    QaDimerLoop(qc, a, target_atomic_numbers, ref_initial_qats,
                QaDimerFinalRefs(qats, a, target_final_n_electrons,
                                 ground_multiplicity_final, ref_initial_qats))

\* Lines 923-947.
QaDimerFromFinal(qc, qats, a, target_initial_qc, target_final_n_electrons, ground_multiplicity_initial, ground_multiplicity_final) ==
    IF ~ground_multiplicity_final.ok THEN Raise("StateSelectionError")
    ELSE QaDimerFromInitialRefs(qc, qats, a, target_initial_qc.atomic_numbers,
             target_final_n_electrons, ground_multiplicity_final.val,
             QaDimerInitialRefs(qats, a, target_initial_qc.n_electrons,
                                target_final_n_electrons, ground_multiplicity_initial))

MutQaDimerNoPolicyCheck(qc, qats, a, ground_multiplicity_initial, target_initial_qc) ==
    IF ~(Len(target_initial_qc) > 1) THEN Raise("AssertionError")
    ELSE QaDimerFromFinal(qc, qats, a, target_initial_qc[1],
             target_initial_qc[1].n_electrons - a.delta_charge,
             ground_multiplicity_initial,
             get_multiplicity(
                 DimerTargetRows(qc, a.target_label,
                                 a.target_initial_charge + a.delta_charge, a.basis_set),
                 0))

\* Lines 909-923.
QaDimerFromGround(qc, qats, a, ground_multiplicity_initial, target_initial_qc) ==
    IF ~(Len(target_initial_qc) > 1) THEN Raise("AssertionError")
    ELSE IF a.lambda_specific_atom = None /\ a.lambda_direction = None
    THEN Raise("AssertionError")
    ELSE QaDimerFromFinal(qc, qats, a, target_initial_qc[1],
             target_initial_qc[1].n_electrons - a.delta_charge,
             ground_multiplicity_initial,
             get_multiplicity(
                 DimerTargetRows(qc, a.target_label,
                                 a.target_initial_charge + a.delta_charge, a.basis_set),
                 0))

\* Lines 905-908.
QaDimerFromMultiplicity(qc, qats, a, initial_all, ground_multiplicity_initial) ==
    IF ~ground_multiplicity_initial.ok THEN Raise("StateSelectionError")
    ELSE QaDimerFromGround(qc, qats, a, ground_multiplicity_initial.val,
             WithMultiplicity(initial_all, ground_multiplicity_initial.val))

energy_change_charge_qa_dimer(qc, qats, target_label, delta_charge, target_initial_charge, change_signs, basis_set, use_ts, lambda_specific_atom, lambda_direction, poly_order, n_points, remove_outliers, zscore, considered_lambdas, return_qats_vs_qa, hash_order, ties) ==
    IF delta_charge = 0 THEN Raise("AssertionError")
    ELSE IF qc = <<>> THEN Raise("IndexError")
    ELSE IF Len(qc[1].atomic_numbers) # 2 THEN Raise("AssertionError")
    ELSE IF return_qats_vs_qa /\ ~use_ts THEN Raise("AssertionError")
    ELSE QaDimerFromMultiplicity(qc, qats,
             [target_label |-> target_label, delta_charge |-> delta_charge,
              target_initial_charge |-> target_initial_charge,
              change_signs |-> change_signs, basis_set |-> basis_set, use_ts |-> use_ts,
              lambda_specific_atom |-> lambda_specific_atom,
              lambda_direction |-> lambda_direction, poly_order |-> poly_order,
              n_points |-> n_points, remove_outliers |-> remove_outliers,
              zscore |-> zscore,
              considered_lambdas |-> considered_lambdas,
              return_qats_vs_qa |-> return_qats_vs_qa, hash_order |-> hash_order,
              ties |-> ties],
             DimerTargetRows(qc, target_label, target_initial_charge, basis_set),
             get_multiplicity(
                 DimerTargetRows(qc, target_label, target_initial_charge, basis_set), 0))

(***************************************************************************)
(* dimer_bonding_curve (prediction.py 503-632) and dimer_eq (634-723).     *)
(* The two dictionaries a call returns have the same keys and are one      *)
(* mapping here: a system's curves (bond lengths and energies) and the     *)
(* number of axes of its arrays, or a system's minima.                     *)
(***************************************************************************)
\* Lines 600-630: the curve of one reference, or its curve of every order.
\* Without coefficients there is no order: np.array([]) has one axis and is
\* one curve without samples.
BondingCurvesOfRef(df_ref, ref_lambda_value, use_ts, considered_lambdas, ties) ==
    IF ~ref_lambda_value.ok THEN BodyRaise("LambdaError")
    ELSE IF ~LambdaConsidered(ref_lambda_value.val, considered_lambdas) THEN BodySkip
    ELSE IF ~use_ts
    THEN IF ~dimer_curve(df_ref, Some(ref_lambda_value.val), FALSE, None, ties).ok
         THEN BodyRaise("AssertionError")
         ELSE BodyOk([ndim |-> 1,
                      curves |-> <<dimer_curve(df_ref, Some(ref_lambda_value.val),
                                               FALSE, None, ties)>>])
    ELSE IF df_ref[1].poly_coeffs = <<>>
    THEN BodyOk([ndim |-> 1,
                 curves |-> <<[ok |-> TRUE, bond_lengths |-> <<>>, energies |-> <<>>]>>])
    ELSE IF \E qats_order \in 0..(Len(df_ref[1].poly_coeffs) - 1) :
               ~dimer_curve(df_ref, Some(ref_lambda_value.val), TRUE, Some(qats_order),
                            ties).ok
    THEN BodyRaise("AssertionError")
    ELSE BodyOk([ndim |-> 2,
                 curves |-> [k \in 1..Len(df_ref[1].poly_coeffs) |->
                     dimer_curve(df_ref, Some(ref_lambda_value.val), TRUE, Some(k - 1),
                                 ties)]])

\* Lines 595-632: the loop over the references, in the order `systems`.
BondingCurveLoop(df_refs, sys_atomic_numbers, systems, use_ts, specific_atom, considered_lambdas, ties) ==
    RunLoop(systems,
            [i \in DOMAIN systems |->
                BondingCurvesOfRef(
                    SelectSeq(df_refs, LAMBDA r : r.system = systems[i]),
                    get_lambda_value(
                        SelectSeq(df_refs, LAMBDA r : r.system = systems[i])[1]
                            .atomic_numbers,
                        sys_atomic_numbers, specific_atom, None),
                    use_ts, considered_lambdas, ties)])

\* Lines 568-632, for the rows of the target's state.  get_qa_refs is asked
\* for rows of the QATS table if use_ts, of the quantum-chemistry table
\* otherwise.
BondingCurveOfState(df_refs, df_sys, target_label, calc_type, use_ts, specific_atom, considered_lambdas, hash_order, ties) ==
    IF calc_type = "qc"
    THEN IF ~dimer_curve(SelectSeq(df_sys, LAMBDA r : r.lambda_value = 0),
                         Some(0), FALSE, None, ties).ok
         THEN Raise("AssertionError")
         ELSE Dict([k \in {target_label} |->
                  [ndim |-> 1,
                   curves |-> <<dimer_curve(SelectSeq(df_sys, LAMBDA r : r.lambda_value = 0),
                                            Some(0), FALSE, None, ties)>>]])
    ELSE IF df_sys = <<>> THEN Raise("IndexError")
    ELSE BondingCurveLoop(df_refs, df_sys[1].atomic_numbers,
             IterationOrder(SystemsOf(df_refs), hash_order),
             use_ts, specific_atom, considered_lambdas, ties)

\* Lines 567-591: the rows of the target's state and its references.  The
\* target's rows are selected by system and charge (lines 560-563), then by
\* multiplicity; basis_set selects the references only.
BondingCurveOfMultiplicity(qc, qats, df_sys, target_label, calc_type, use_ts, specific_atom, direction, basis_set, considered_lambdas, hash_order, ties) ==
    BondingCurveOfState(
        IF calc_type = "qc" \/ df_sys = <<>> THEN <<>>
        ELSE get_qa_refs(qc, IF use_ts THEN qats ELSE qc, target_label,
                         df_sys[1].n_electrons, basis_set),
        df_sys, target_label, calc_type, use_ts, specific_atom, considered_lambdas,
        hash_order, ties)

\* direction goes to get_qa_refs only (lines 586-591); get_lambda_value is
\* called with specific_atom alone (lines 600-603).
dimer_bonding_curve(qc, qats, target_label, target_charge, calc_type, use_ts, specific_atom, direction, basis_set, considered_lambdas, hash_order, ties) ==
    IF calc_type \notin {"qc", "alchemy"} THEN Raise("AssertionError")
    ELSE IF ~get_multiplicity(
                 SelectSeq(qc, LAMBDA r : /\ r.system = target_label
                                          /\ r.charge = target_charge
                                          /\ r.lambda_value = 0), 0).ok
    THEN Raise("StateSelectionError")
    ELSE BondingCurveOfMultiplicity(qc, qats,
             WithMultiplicity(
                 SelectSeq(qc, LAMBDA r : r.system = target_label /\ r.charge = target_charge),
                 get_multiplicity(
                     SelectSeq(qc, LAMBDA r : /\ r.system = target_label
                                              /\ r.charge = target_charge
                                              /\ r.lambda_value = 0), 0).val),
             target_label, calc_type, use_ts, specific_atom, direction, basis_set,
             considered_lambdas, hash_order, ties)

\* Lines 701-723: the minimum of every curve of every system.
EqOfCurves(curves, n_points, poly_order, remove_outliers, zscore) ==
    IF curves.kind # "dict" THEN curves
    ELSE IF \E s \in DOMAIN curves.map : \E i \in DOMAIN curves.map[s].curves :
               ~dimer_minimum(curves.map[s].curves[i].bond_lengths,
                              curves.map[s].curves[i].energies,
                              n_points, poly_order, remove_outliers, zscore).ok
    THEN Raise("FitError")
    ELSE Dict([s \in DOMAIN curves.map |->
             [i \in DOMAIN curves.map[s].curves |->
                 dimer_minimum(curves.map[s].curves[i].bond_lengths,
                               curves.map[s].curves[i].energies,
                               n_points, poly_order, remove_outliers, zscore).eq]])

dimer_eq(qc, qats, target_label, target_charge, calc_type, use_ts, specific_atom, direction, basis_set, n_points, poly_order, remove_outliers, zscore, considered_lambdas, hash_order, ties) ==
    IF calc_type \notin {"qc", "alchemy"} THEN Raise("AssertionError")
    ELSE EqOfCurves(dimer_bonding_curve(qc, qats, target_label, target_charge, calc_type,
                        use_ts, specific_atom, direction, basis_set,
                        considered_lambdas, hash_order, ties),
                    n_points, poly_order, remove_outliers, zscore)

(***************************************************************************)
(* The tables the calls are made on.                                       *)
(*                                                                         *)
(* Atoms: the target is nitrogen ("n", Z = 7); carbon and oxygen are its   *)
(* references (lambda = 1 and -1).  Dimers: the target is "o.h"; "n.h" and *)
(* "f.h" are its references.  A table of the model is one of the tables    *)
(* below with at most one row left out, so that every kind of missing data *)
(* occurs; a synthetic reference row (a row whose atomic numbers disagree  *)
(* with the other rows of its system) can replace the true one.            *)
(***************************************************************************)
BasisAtoms == "aug-cc-pV5Z"
BasisDimers == "cc-pV5Z"

AtomQC ==
    << QCRow("n", <<7>>, 0, 4, BasisAtoms, 0, 0, -54),
       QCRow("n", <<7>>, 0, 2, BasisAtoms, 0, 0, -52),
       QCRow("n", <<7>>, 1, 3, BasisAtoms, 0, 0, -40),
       QCRow("n", <<7>>, 1, 1, BasisAtoms, 0, 0, -38),
       QCRow("n", <<7>>, -1, 3, BasisAtoms, 0, 0, -55),
       QCRow("c", <<6>>, -1, 4, BasisAtoms, 1, 0, -53),
       QCRow("c", <<6>>, 0, 3, BasisAtoms, 1, 0, -41),
       QCRow("c", <<6>>, -1, 2, BasisAtoms, 1, 0, -50),
       QCRow("o", <<8>>, 1, 4, BasisAtoms, -1, 0, -56),
       QCRow("o", <<8>>, 2, 3, BasisAtoms, -1, 0, -39),
       QCRow("n", <<7>>, 0, 4, BasisDimers, 0, 0, -60) >>

AtomQATS ==
    << QATSRow("c", <<6>>, -1, 4, BasisAtoms, 0, <<-37, -15, -2>>),
       QATSRow("c", <<6>>, -1, 2, BasisAtoms, 0, <<-35, -14, -1>>),
       QATSRow("c", <<6>>, 0, 3, BasisAtoms, 0, <<-30, -9>>),
       QATSRow("o", <<8>>, 1, 4, BasisAtoms, 0, <<-75, 20, -1>>),
       QATSRow("o", <<8>>, 2, 3, BasisAtoms, 0, <<-60, 22, -1>>),
       QATSRow("o", <<8>>, 1, 2, BasisAtoms, 0, <<-73, 20, -2>> ) >>

\* The bond lengths sampled for every dimer, and a curve with its minimum
\* at the third one.
BondLengths == <<1, 2, 3, 4, 5>>

Well(base, bl) == base + (bl - 3) * (bl - 3)

DimerQCCurve(sys, Z, chg, mult, lam, base) ==
    [i \in DOMAIN BondLengths |->
        QCRow(sys, Z, chg, mult, BasisDimers, lam, BondLengths[i], Well(base, BondLengths[i]))]

DimerQATSCurve(sys, Z, chg, mult, c0, c1, c2) ==
    [i \in DOMAIN BondLengths |->
        QATSRow(sys, Z, chg, mult, BasisDimers, BondLengths[i],
                <<Well(c0, BondLengths[i]), c1, c2>>)]

DimerQC ==
    DimerQCCurve("o.h", <<8, 1>>, 0, 2, 0, -76)
    \o DimerQCCurve("o.h", <<8, 1>>, 1, 3, 0, -62)
    \o DimerQCCurve("n.h", <<7, 1>>, -1, 2, 1, -75)
    \o DimerQCCurve("n.h", <<7, 1>>, 0, 3, 1, -63)
    \o << QCRow("o.h", <<8, 1>>, 0, 4, BasisDimers, 0, 3, -70) >>

DimerQATS ==
    DimerQATSCurve("n.h", <<7, 1>>, -1, 2, -55, -18, -2)
    \o DimerQATSCurve("n.h", <<7, 1>>, 0, 3, -47, -15, -1)
    \o DimerQATSCurve("f.h", <<9, 1>>, 1, 2, -99, 25, -2)
    \o DimerQATSCurve("f.h", <<9, 1>>, 2, 3, -85, 24, -1)

\* s, and s with one of the rows `at` left out.
LeaveOneOut(s, at) ==
    {s} \cup {[k \in 1..(Len(s) - 1) |-> IF k < i THEN s[k] ELSE s[k + 1]] : i \in at}

\* s with the atomic numbers of row i replaced: a synthetic reference.
Synthetic(s, i, Z) == [s EXCEPT ![i] = [@ EXCEPT !.atomic_numbers = Z]]

\* The synthetic references: the final row of carbon and of oxygen, and the
\* excited row of each.  The last QATS table also holds rows of the target.
AtomTables ==
    LeaveOneOut(AtomQC, DOMAIN AtomQC)
    \X (LeaveOneOut(AtomQATS, DOMAIN AtomQATS)
        \cup LeaveOneOut(Synthetic(AtomQATS, 3, <<5>>), {1, 4})
        \cup {Synthetic(AtomQATS, 5, <<9>>), Synthetic(AtomQATS, 2, <<5>>),
              Synthetic(AtomQATS, 6, <<9>>)}
        \cup {AtomQATS \o << QATSRow("n", <<7>>, 0, 4, BasisAtoms, 0, <<-54, 3, 1>>),
                              QATSRow("n", <<7>>, 1, 3, BasisAtoms, 0, <<-40, 2, 1>>) >>})

\* One row of every curve: at the end and inside.  Then the QATS tables in
\* which "f.h" has rows at one electron count only (and the target has rows
\* of its own), in which no reference has rows at the final electron count,
\* and in which "n.h" lacks an initial row and "f.h" a final row.  Last, the
\* quantum-chemistry table that holds "o.h" at charge 0 in a second basis
\* set as well, at two of the bond lengths.
DimerTables ==
    LeaveOneOut(DimerQC, {1, 8, 11, 20, 21})
    \X (LeaveOneOut(DimerQATS, {1, 8, 13})
        \cup {Synthetic(DimerQATS, 6, <<6, 1>>)}
        \cup {SelectSeq(DimerQATS, LAMBDA r : ~(r.system = "f.h" /\ r.charge = 2))
                  \o DimerQATSCurve("o.h", <<8, 1>>, 0, 2, -76, 3, 1)
                  \o DimerQATSCurve("o.h", <<8, 1>>, 1, 3, -62, 2, 1),
              SelectSeq(DimerQATS, LAMBDA r : r.charge \in {-1, 1}),
              SelectSeq(DimerQATS, LAMBDA r :
                  /\ ~(r.system = "n.h" /\ r.charge = -1 /\ r.bond_length = 1)
                  /\ ~(r.system = "f.h" /\ r.charge = 2 /\ r.bond_length = 5))})
    \cup {<<DimerQC \o [i \in 1..2 |->
                           QCRow("o.h", <<8, 1>>, 0, 2, BasisAtoms, 0, BondLengths[2 * i],
                                 Well(-70, BondLengths[2 * i]))],
             DimerQATS>>}

\* The assertions on the first row: an atom predictor takes every table
\* whose first row is not a dimer (lines 161, 268), a dimer predictor a
\* table whose first row is one (lines 773, 896).
IsAtomTable(df) == df # <<>> /\ Len(df[1].atomic_numbers) # 2
IsDimerTable(df) == df # <<>> /\ Len(df[1].atomic_numbers) = 2

(***************************************************************************)
(* The arguments the calls are made with.                                  *)
(***************************************************************************)
AtomLabels == {"n", "f"}
DimerLabels == {"o.h", "f.f"}
DeltaCharges == {-1, 0, 1}
InitialCharges == {0, 1}
BasisSets == {BasisAtoms, BasisDimers}
ConsideredLambdas == {None, Some({1}), Some({-1})}
SpecificAtoms == {None, Some(0)}
Directions == {None, Some("counter")}
PolyOrders == {2, 4}

CoeffSeqs == SeqsUpTo(-MaxCoeff..MaxCoeff, MaxCoeffs) \ {<<>>}
Orders == 0..MaxCoeffs
ScalarLambdas == {Scalar(x) : x \in -MaxLambda..MaxLambda}
SequenceLambdas ==
    {List(xs) : xs \in SeqsUpTo(-1..1, MaxLambdas)}
    \cup {Ndarray(xs) : xs \in SeqsUpTo(-1..1, MaxLambdas)}

\* The dataframes _dimer_curve is called on: up to MaxRows distinct rows, in
\* any order, of one state of "n.h" (quantum-chemistry rows at lambda 0 and
\* 1, or QATS rows), the bond lengths 1 to 3; and dataframes its assertions
\* reject: an atom, and rows of two states.
CurveFrames ==
    {df \in SeqsUpTo({QCRow("n.h", <<7, 1>>, -1, 2, BasisDimers, lam, bl, 10 * bl + lam - 80) :
                          lam \in {0, 1}, bl \in 1..3}, MaxRows) :
        df # <<>> /\ \A i, j \in DOMAIN df : i # j => df[i] # df[j]}
    \cup {df \in SeqsUpTo({QATSRow("n.h", <<7, 1>>, -1, 2, BasisDimers, bl, <<-50 - bl, bl - 18, -2>>) :
                               bl \in 1..3}, MaxRows) :
              df # <<>> /\ \A i, j \in DOMAIN df : i # j => df[i] # df[j]}
    \cup {<<AtomQC[1]>>, <<DimerQATS[6], DimerQATS[5]>>}

\* The curves dimer_minimum is called on: a smooth curve of 5 to MaxSamples
\* samples at the bond lengths 2, 4, ..., a well of curvature w with its
\* lowest energy at sample c, and the same curve with one more sample of
\* energy +1000 as its p-th sample (p = 0: no such sample).
Curvatures == {1, 15}

SampleWell(w, i) == -76 + w * (i - 3) * (i - 3)

SampleCurves ==
    UNION {{[bond_lengths |->
                [i \in 1..(n + (IF p = 0 THEN 0 ELSE 1)) |->
                    IF p = 0 \/ i < p THEN 2 * i
                    ELSE IF i = p THEN 2 * p - 1 ELSE 2 * (i - 1)],
            energies |->
                [i \in 1..(n + (IF p = 0 THEN 0 ELSE 1)) |->
                    IF p = 0 \/ i < p THEN SampleWell(w, i + 3 - c)
                    ELSE IF i = p THEN 1000 ELSE SampleWell(w, i - 1 + 3 - c)]] :
              c \in 1..n, p \in 0..(n + 1), w \in Curvatures} : n \in 5..MaxSamples}

\* The z-score conventions the calls are made under.  A call with
\* remove_outliers = False computes no z-score: every convention gives the
\* same call, and one stands for all.
ZscoreKinds == [ddof : {0, 1}, two_sided : BOOLEAN]

ZscoreUnused == [ddof |-> 0, two_sided |-> TRUE]

ZscoreKindsOf(remove_outliers) == IF remove_outliers THEN ZscoreKinds ELSE {ZscoreUnused}

\* The iteration orders of a set of systems the calls are made under.  The
\* systems a call iterates are systems of the table df its references are
\* read from; n systems have n! orders, and a larger number selects one of
\* these orders again.  A curve of calc_type 'qc' has no loop over
\* references, and the first order stands for all.
MaxHashOrder == 1

HashOrders == 0..MaxHashOrder

HashOrdersOf(df) == {h \in HashOrders : h < Factorial(Cardinality(SystemSet(df)))}

\* The tie-breaks of np.argsort the calls are made under.  _dimer_curve
\* sorts rows of one system, charge and multiplicity whose first row is a
\* dimer's: a curve has rows of equal bond length only when the table holds
\* two such rows at one bond length.  On every other table all tie-breaks
\* give the same order, and the first stands for them.
MaxTieBreak == 3

TieBreaks == 0..MaxTieBreak

HasTiedRows(df) ==
    \E i, j \in DOMAIN df :
        /\ i < j
        /\ df[i].system = df[j].system
        /\ df[i].charge = df[j].charge
        /\ df[i].multiplicity = df[j].multiplicity
        /\ df[i].bond_length = df[j].bond_length
        /\ \E k \in DOMAIN df : /\ df[k].system = df[i].system
                                /\ Len(df[k].atomic_numbers) = 2

TieBreaksOf(qc, qats) ==
    IF HasTiedRows(qc) \/ HasTiedRows(qats) THEN TieBreaks ELSE {0}

InBasisSet(df, basis_set) == SelectSeq(df, LAMBDA r : r.basis_set = basis_set)

Idle == [op |-> "none"]
NoResult == [kind |-> "none"]

(***************************************************************************)
(* Calls.  A call is made from the idle state, records its arguments in    *)
(* `call` and what it returns or raises in `result`; no call writes to the *)
(* tables.                                                                 *)
(***************************************************************************)
QatsPredictionCall(poly_coeffs, order, lambda_values) ==
    /\ call = Idle
    /\ call' = [op |-> "qats_prediction", poly_coeffs |-> poly_coeffs,
                order |-> order, lambda_values |-> lambda_values]
    /\ result' = Array(qats_prediction(poly_coeffs, order, lambda_values))
    /\ UNCHANGED <<df_qc, df_qats>>

\* qats_prediction with one lambda value.
CallQatsPredictionScalar ==
    \E poly_coeffs \in CoeffSeqs, order \in Orders, lambda_values \in ScalarLambdas :
        QatsPredictionCall(poly_coeffs, order, lambda_values)

\* qats_prediction with a list or an array of lambda values.
CallQatsPredictionSequence ==
    \E poly_coeffs \in CoeffSeqs, order \in Orders, lambda_values \in SequenceLambdas :
        QatsPredictionCall(poly_coeffs, order, lambda_values)

\* _dimer_curve on a dataframe of its own.  A Taylor curve is asked for
\* with a lambda value, as all callers do.
CallDimerCurve ==
    /\ call = Idle
    /\ \E df \in CurveFrames, lambda_value \in {None, Some(0), Some(1)},
          use_ts \in BOOLEAN, qats_order \in {None, Some(0), Some(1), Some(2)},
          ties \in TieBreaks :
          /\ use_ts => lambda_value # None
          /\ ties = 0 \/ HasTiedRows(df)
          /\ call' = [op |-> "_dimer_curve", df |-> df, lambda_value |-> lambda_value,
                      use_ts |-> use_ts, qats_order |-> qats_order, ties |-> ties]
          /\ result' =
                 IF ~dimer_curve(df, lambda_value, use_ts, qats_order, ties).ok
                 THEN Raise("AssertionError")
                 ELSE [kind |-> "curve",
                       bond_lengths |->
                           dimer_curve(df, lambda_value, use_ts, qats_order, ties)
                               .bond_lengths,
                       energies |->
                           dimer_curve(df, lambda_value, use_ts, qats_order, ties)
                               .energies]
    /\ UNCHANGED <<df_qc, df_qats>>

\* dimer_minimum on a curve of its own.
CallDimerMinimum ==
    /\ call = Idle
    /\ \E remove_outliers \in BOOLEAN :
       \E zscore \in ZscoreKindsOf(remove_outliers), curve \in SampleCurves,
          n_points \in {1, 2}, poly_order \in PolyOrders :
          /\ call' = [op |-> "dimer_minimum", bond_lengths |-> curve.bond_lengths,
                      energies |-> curve.energies, n_points |-> n_points,
                      poly_order |-> poly_order, remove_outliers |-> remove_outliers,
                      zscore |-> zscore]
          /\ result' =
                 IF ~dimer_minimum(curve.bond_lengths, curve.energies, n_points,
                                   poly_order, remove_outliers, zscore).ok
                 THEN Raise("FitError")
                 ELSE [kind |-> "minimum",
                       eq |-> dimer_minimum(curve.bond_lengths, curve.energies, n_points,
                                            poly_order, remove_outliers, zscore).eq]
    /\ UNCHANGED <<df_qc, df_qats>>

\* A predictor for atoms is called with every argument on a table of atoms
\* and with its default arguments on a table of dimers, and conversely.
AtomArgsFor(df, target_label, delta_charge, target_initial_charge, basis_set) ==
    \/ IsAtomTable(df)
    \/ target_label = "n" /\ delta_charge = 1 /\ target_initial_charge = 0
       /\ basis_set = BasisAtoms

DimerArgsFor(df, target_label, delta_charge, target_initial_charge, basis_set) ==
    \/ IsDimerTable(df)
    \/ target_label = "o.h" /\ delta_charge = 1 /\ target_initial_charge = 0
       /\ basis_set = BasisDimers

MutCallQcAtomNegatesTable ==
    /\ call = Idle
    /\ \E target_label \in AtomLabels, delta_charge \in DeltaCharges,
          target_initial_charge \in InitialCharges, change_signs \in BOOLEAN,
          basis_set \in BasisSets :
          /\ AtomArgsFor(df_qc, target_label, delta_charge, target_initial_charge, basis_set)
          /\ call' = [op |-> "energy_change_charge_qc_atom", target_label |-> target_label,
                      delta_charge |-> delta_charge,
                      target_initial_charge |-> target_initial_charge,
                      change_signs |-> change_signs, basis_set |-> basis_set]
          /\ result' = energy_change_charge_qc_atom(df_qc, target_label, delta_charge,
                           target_initial_charge, change_signs, basis_set, TRUE)
          /\ df_qc' = IF change_signs
                      THEN [i \in DOMAIN df_qc |->
                               [df_qc[i] EXCEPT !.electronic_energy = 0 - @]]
                      ELSE df_qc
    /\ UNCHANGED df_qats

CallEnergyChangeChargeQcAtom ==
    /\ call = Idle
    /\ \E target_label \in AtomLabels, delta_charge \in DeltaCharges,
          target_initial_charge \in InitialCharges, change_signs \in BOOLEAN,
          basis_set \in BasisSets :
          /\ AtomArgsFor(df_qc, target_label, delta_charge, target_initial_charge, basis_set)
          /\ call' = [op |-> "energy_change_charge_qc_atom", target_label |-> target_label,
                      delta_charge |-> delta_charge,
                      target_initial_charge |-> target_initial_charge,
                      change_signs |-> change_signs, basis_set |-> basis_set]
          /\ result' = energy_change_charge_qc_atom(df_qc, target_label, delta_charge,
                           target_initial_charge, change_signs, basis_set, TRUE)
    /\ UNCHANGED <<df_qc, df_qats>>

CallEnergyChangeChargeQaAtom ==
    /\ call = Idle
    /\ \E target_label \in AtomLabels, delta_charge \in DeltaCharges,
          target_initial_charge \in InitialCharges, change_signs \in BOOLEAN,
          basis_set \in BasisSets, use_ts \in BOOLEAN,
          considered_lambdas \in ConsideredLambdas, return_qats_vs_qa \in BOOLEAN :
          /\ AtomArgsFor(df_qc, target_label, delta_charge, target_initial_charge, basis_set)
          /\ call' = [op |-> "energy_change_charge_qa_atom", target_label |-> target_label,
                      delta_charge |-> delta_charge,
                      target_initial_charge |-> target_initial_charge,
                      change_signs |-> change_signs, basis_set |-> basis_set,
                      use_ts |-> use_ts, considered_lambdas |-> considered_lambdas,
                      return_qats_vs_qa |-> return_qats_vs_qa]
          /\ result' = energy_change_charge_qa_atom(df_qc, df_qats, target_label,
                           delta_charge, target_initial_charge, change_signs, basis_set,
                           use_ts, TRUE, considered_lambdas, return_qats_vs_qa)
    /\ UNCHANGED <<df_qc, df_qats>>

CallMultGapQcAtom ==
    /\ call = Idle
    /\ \E target_label \in AtomLabels, target_charge \in InitialCharges,
          basis_set \in BasisSets :
          /\ AtomArgsFor(df_qc, target_label, 1, target_charge, basis_set)
          /\ call' = [op |-> "mult_gap_qc_atom", target_label |-> target_label,
                      target_charge |-> target_charge, basis_set |-> basis_set]
          /\ result' = mult_gap_qc_atom(df_qc, target_label, target_charge, basis_set, TRUE)
    /\ UNCHANGED <<df_qc, df_qats>>

CallMultGapQaAtom ==
    /\ call = Idle
    /\ \E target_label \in AtomLabels, target_charge \in InitialCharges,
          basis_set \in BasisSets, use_ts \in BOOLEAN,
          considered_lambdas \in ConsideredLambdas, return_qats_vs_qa \in BOOLEAN :
          /\ AtomArgsFor(df_qc, target_label, 1, target_charge, basis_set)
          /\ call' = [op |-> "mult_gap_qa_atom", target_label |-> target_label,
                      target_charge |-> target_charge, basis_set |-> basis_set,
                      use_ts |-> use_ts, considered_lambdas |-> considered_lambdas,
                      return_qats_vs_qa |-> return_qats_vs_qa]
          /\ result' = mult_gap_qa_atom(df_qc, df_qats, target_label, target_charge,
                           basis_set, use_ts, TRUE, considered_lambdas, return_qats_vs_qa)
    /\ UNCHANGED <<df_qc, df_qats>>

CallEnergyChangeChargeQcDimer ==
    /\ call = Idle
    /\ \E basis_set \in BasisSets :
       \E ties \in TieBreaksOf(InBasisSet(df_qc, basis_set), <<>>),
          target_label \in DimerLabels, delta_charge \in DeltaCharges,
          target_initial_charge \in InitialCharges, change_signs \in BOOLEAN,
          poly_order \in PolyOrders :
          /\ DimerArgsFor(df_qc, target_label, delta_charge, target_initial_charge, basis_set)
          /\ call' = [op |-> "energy_change_charge_qc_dimer", target_label |-> target_label,
                      delta_charge |-> delta_charge,
                      target_initial_charge |-> target_initial_charge,
                      change_signs |-> change_signs, basis_set |-> basis_set,
                      poly_order |-> poly_order, ties |-> ties]
          /\ result' = energy_change_charge_qc_dimer(df_qc, target_label, delta_charge,
                           target_initial_charge, change_signs, basis_set, 2, poly_order,
                           FALSE, ZscoreUnused, ties)
    /\ UNCHANGED <<df_qc, df_qats>>

CallEnergyChangeChargeQaDimer ==
    /\ call = Idle
    /\ \E ties \in TieBreaksOf(InBasisSet(df_qc, BasisDimers),
                               InBasisSet(df_qats, BasisDimers)),
          target_label \in DimerLabels, delta_charge \in DeltaCharges,
          target_initial_charge \in InitialCharges, change_signs \in BOOLEAN,
          use_ts \in BOOLEAN,
          lambda_specific_atom \in SpecificAtoms, lambda_direction \in Directions,
          poly_order \in PolyOrders, considered_lambdas \in ConsideredLambdas,
          return_qats_vs_qa \in BOOLEAN, hash_order \in HashOrdersOf(df_qats) :
          /\ target_initial_charge = 0 \/ delta_charge < 0
          /\ DimerArgsFor(df_qc, target_label, delta_charge, target_initial_charge,
                          BasisDimers)
          /\ call' = [op |-> "energy_change_charge_qa_dimer", target_label |-> target_label,
                      delta_charge |-> delta_charge,
                      target_initial_charge |-> target_initial_charge,
                      change_signs |-> change_signs, basis_set |-> BasisDimers,
                      use_ts |-> use_ts, lambda_specific_atom |-> lambda_specific_atom,
                      lambda_direction |-> lambda_direction, poly_order |-> poly_order,
                      considered_lambdas |-> considered_lambdas,
                      return_qats_vs_qa |-> return_qats_vs_qa, ties |-> ties]
          /\ result' = energy_change_charge_qa_dimer(df_qc, df_qats, target_label,
                           delta_charge, target_initial_charge, change_signs, BasisDimers,
                           use_ts, lambda_specific_atom, lambda_direction, poly_order,
                           2, FALSE, ZscoreUnused,
                           considered_lambdas, return_qats_vs_qa, hash_order, ties)
    /\ UNCHANGED <<df_qc, df_qats>>

CallDimerBondingCurve ==
    /\ call = Idle
    /\ \E calc_type \in {"qc", "alchemy"} :
       \E ties \in TieBreaksOf(df_qc, InBasisSet(df_qats, BasisDimers)),
          use_ts \in BOOLEAN :
       \E hash_order \in (IF calc_type = "alchemy"
                          THEN HashOrdersOf(IF use_ts THEN df_qats ELSE df_qc) ELSE {0}),
          target_label \in DimerLabels, target_charge \in InitialCharges,
          specific_atom \in SpecificAtoms, direction \in Directions,
          considered_lambdas \in ConsideredLambdas :
          /\ DimerArgsFor(df_qc, target_label, 1, target_charge, BasisDimers)
          /\ call' = [op |-> "dimer_bonding_curve", target_label |-> target_label,
                      target_charge |-> target_charge, calc_type |-> calc_type,
                      use_ts |-> use_ts, specific_atom |-> specific_atom,
                      direction |-> direction, basis_set |-> BasisDimers,
                      considered_lambdas |-> considered_lambdas, ties |-> ties]
          /\ result' = dimer_bonding_curve(df_qc, df_qats, target_label, target_charge,
                           calc_type, use_ts, specific_atom, direction, BasisDimers,
                           considered_lambdas, hash_order, ties)
    /\ UNCHANGED <<df_qc, df_qats>>

CallDimerEq ==
    /\ call = Idle
    /\ \E calc_type \in {"qc", "alchemy"} :
       \E ties \in TieBreaksOf(df_qc, InBasisSet(df_qats, BasisDimers)),
          use_ts \in BOOLEAN :
       \E hash_order \in (IF calc_type = "alchemy"
                          THEN HashOrdersOf(IF use_ts THEN df_qats ELSE df_qc) ELSE {0}),
          target_label \in DimerLabels, target_charge \in InitialCharges,
          specific_atom \in SpecificAtoms, direction \in Directions,
          poly_order \in PolyOrders, considered_lambdas \in ConsideredLambdas :
          /\ DimerArgsFor(df_qc, target_label, 1, target_charge, BasisDimers)
          /\ call' = [op |-> "dimer_eq", target_label |-> target_label,
                      target_charge |-> target_charge, calc_type |-> calc_type,
                      use_ts |-> use_ts, specific_atom |-> specific_atom,
                      direction |-> direction, basis_set |-> BasisDimers,
                      poly_order |-> poly_order,
                      considered_lambdas |-> considered_lambdas, ties |-> ties]
          /\ result' = dimer_eq(df_qc, df_qats, target_label, target_charge, calc_type,
                           use_ts, specific_atom, direction, BasisDimers, 2, poly_order,
                           FALSE, ZscoreUnused, considered_lambdas, hash_order, ties)
    /\ UNCHANGED <<df_qc, df_qats>>

(***************************************************************************)
(* Specifications.  Spec: the predictors, called on every table of the     *)
(* model.  SpecTaylor: the functions that read neither table: the Taylor   *)
(* evaluator, the curve builder and the equilibrium finder.                *)
(***************************************************************************)
Init ==
    /\ \E tables \in AtomTables \cup DimerTables :
          df_qc = tables[1] /\ df_qats = tables[2]
    /\ call = Idle
    /\ result = NoResult

Next ==
    \/ CallEnergyChangeChargeQcAtom
    \/ CallEnergyChangeChargeQaAtom
    \/ CallMultGapQcAtom
    \/ CallMultGapQaAtom
    \/ CallEnergyChangeChargeQcDimer
    \/ CallEnergyChangeChargeQaDimer
    \/ CallDimerBondingCurve
    \/ CallDimerEq

Spec == Init /\ [][Next]_vars

InitTaylor ==
    /\ df_qc = <<>>
    /\ df_qats = <<>>
    /\ call = Idle
    /\ result = NoResult

NextTaylor ==
    \/ CallQatsPredictionScalar
    \/ CallQatsPredictionSequence
    \/ CallDimerCurve
    \/ CallDimerMinimum

SpecTaylor == InitTaylor /\ [][NextTaylor]_vars

(***************************************************************************)
(* Properties of qats_prediction, checked under SpecTaylor.                *)
(***************************************************************************)
QatsCalled == call.op = "qats_prediction"

ScalarCalled == QatsCalled /\ call.lambda_values.type = "scalar"

\* The number of lambda values the caller supplied.
LambdaCount(lambda_values) ==
    IF lambda_values.type = "scalar" THEN 1 ELSE Len(lambda_values.v)

\* C1: for 0 <= k < len(c) and a scalar lambda, qats_prediction(c, k, lambda)
\* is the one-element array holding c[0] + c[1] lambda + ... + c[k] lambda^k;
\* the coefficients above k have no influence.
C1_TruncatedSum ==
    (ScalarCalled /\ call.order >= 0 /\ call.order < Len(call.poly_coeffs))
    => /\ result.kind = "array"
       /\ result.val = <<SumTo(call.poly_coeffs, call.order + 1, call.lambda_values.v)>>

\* A truncation that drops a non-zero coefficient, at a lambda where the
\* dropped term matters.
C1_Witness ==
    /\ ScalarCalled
    /\ call.poly_coeffs = <<1, 1, 1>>
    /\ call.order = 1
    /\ call.lambda_values.v = 2
    /\ result.val = <<3>>

\* C2: the output is a sequence with as many elements as lambda values were
\* supplied: 1 for a scalar, n for a list or an array of n values.
C2_OutputLength ==
    QatsCalled
    => /\ result.kind = "array"
       /\ Len(result.val) = LambdaCount(call.lambda_values)

\* C3: at lambda = 0 the prediction is c[0], whatever the order k >= 0.
C3_AtZero ==
    (ScalarCalled /\ call.lambda_values.v = 0 /\ call.order >= 0)
    => result.val = <<call.poly_coeffs[1]>>

\* lambda = 0 with higher coefficients present and included.
C3_Witness ==
    /\ ScalarCalled
    /\ call.lambda_values.v = 0
    /\ call.poly_coeffs = <<-1, 1, 1>>
    /\ call.order = 2
    /\ result.val = <<-1>>

\* C4: an order k >= len(c) is a fatal index error: the call returns no
\* value.
C4_OutOfRangeOrderRaises ==
    (QatsCalled /\ call.order >= Len(call.poly_coeffs)) => IsRaise(result)

(***************************************************************************)
(* Properties of the predictors, checked under Spec.  The data a call is   *)
(* about is described here by sets of rows of the two tables.              *)
(***************************************************************************)
\* The lambda = 0 rows of a system at a charge in a basis set.
TargetAt(target_label, charge, basis_set) ==
    {r \in Range(df_qc) : /\ r.system = target_label
                          /\ r.charge = charge
                          /\ r.lambda_value = 0
                          /\ r.basis_set = basis_set}

\* The lambda = 0 rows of a system with n electrons in a basis set.
TargetWith(target_label, n, basis_set) ==
    {r \in Range(df_qc) : /\ r.system = target_label
                          /\ r.n_electrons = n
                          /\ r.lambda_value = 0
                          /\ r.basis_set = basis_set}

\* The ground state among rows: the row of lowest energy.
GroundOf(rows) == CHOOSE r \in rows : \A q \in rows : RowEnergy(r) <= RowEnergy(q)

\* The (delta_charge, change_signs) pairs a charge-change predictor admits.
Admissible(delta_charge, change_signs) ==
    delta_charge # 0 /\ (delta_charge > 0 \/ change_signs)

\* -x for a float x; the negation of NaN is NaN.
Negated(r) == IF r.kind = "float" THEN [r EXCEPT !.val = 0 - r.val] ELSE r

QcAtomCalled == call.op = "energy_change_charge_qc_atom"

\* The two endpoints of the current call.
InitialEndpoint == TargetAt(call.target_label, call.target_initial_charge, call.basis_set)

FinalEndpoint ==
    TargetAt(call.target_label, call.target_initial_charge + call.delta_charge,
             call.basis_set)

\* C5: when both endpoints have data, energy_change_charge_qc_atom returns
\* E_final - E_initial, negated if change_signs; E_initial is the ground
\* state energy of the target at target_initial_charge and E_final the one
\* of the rows with delta_charge fewer electrons, which are the rows at
\* charge target_initial_charge + delta_charge.
C5_QcAtomDifference ==
    (/\ QcAtomCalled
     /\ Admissible(call.delta_charge, call.change_signs)
     /\ InitialEndpoint # {}
     /\ FinalEndpoint # {})
    => /\ FinalEndpoint =
              TargetWith(call.target_label,
                         GroundOf(InitialEndpoint).n_electrons - call.delta_charge,
                         call.basis_set)
       /\ result.kind = "float"
       /\ result.val =
              (IF call.change_signs THEN -1 ELSE 1)
              * (GroundOf(FinalEndpoint).electronic_energy
                 - GroundOf(InitialEndpoint).electronic_energy)

\* An ionization between two endpoints of two states each: -40 - (-54).
C5_Witness ==
    /\ QcAtomCalled
    /\ call.delta_charge = 1
    /\ ~call.change_signs
    /\ Cardinality(InitialEndpoint) = 2
    /\ Cardinality(FinalEndpoint) = 2
    /\ result = Float(14)

\* C6: in a non-empty table of atoms and for an admissible (delta_charge,
\* change_signs), energy_change_charge_qc_atom returns NaN and raises
\* nothing when the initial endpoint has no row, or the final endpoint (the
\* rows with delta_charge fewer electrons than the initial state) has none.
C6_QcAtomNoData ==
    (/\ QcAtomCalled
     /\ IsAtomTable(df_qc)
     /\ Admissible(call.delta_charge, call.change_signs)
     /\ \/ InitialEndpoint = {}
        \/ TargetWith(call.target_label,
                      GroundOf(InitialEndpoint).n_electrons - call.delta_charge,
                      call.basis_set) = {})
    => result = NaN

\* The initial endpoint has data, the final one has none.
C6_Witness ==
    /\ QcAtomCalled
    /\ IsAtomTable(df_qc)
    /\ call.target_label = "n"
    /\ call.delta_charge = 1
    /\ InitialEndpoint # {}
    /\ FinalEndpoint = {}
    /\ result = NaN

\* The six predictors of an energy difference.
Predictors ==
    {"energy_change_charge_qc_atom", "energy_change_charge_qa_atom",
     "energy_change_charge_qc_dimer", "energy_change_charge_qa_dimer",
     "mult_gap_qc_atom", "mult_gap_qa_atom"}

ForAtoms(op) ==
    op \in {"energy_change_charge_qc_atom", "energy_change_charge_qa_atom",
            "mult_gap_qc_atom", "mult_gap_qa_atom"}

\* The charge the current call looks its target up at.
CalledCharge ==
    IF call.op \in {"mult_gap_qc_atom", "mult_gap_qa_atom"}
    THEN call.target_charge ELSE call.target_initial_charge

\* The current call is well formed: the table holds the kind of system the
\* predictor is for, and the call's own argument checks pass.  The atom
\* predictors check the sign of delta_charge against change_signs; of the
\* dimer predictors the alchemical one checks delta_charge # 0 only.
WellFormedCall ==
    /\ call.op \in Predictors
    /\ IF ForAtoms(call.op) THEN IsAtomTable(df_qc) ELSE IsDimerTable(df_qc)
    /\ "delta_charge" \in DOMAIN call
       => IF ForAtoms(call.op) THEN Admissible(call.delta_charge, call.change_signs)
          ELSE call.op = "energy_change_charge_qa_dimer" => call.delta_charge # 0
    /\ "return_qats_vs_qa" \in DOMAIN call => (call.return_qats_vs_qa => call.use_ts)
    /\ "lambda_direction" \in DOMAIN call
       => (call.lambda_specific_atom # None \/ call.lambda_direction # None)

\* The 'no data' outcomes: NaN, or a mapping without entries.
NoData(r) == r = NaN \/ r = Dict(<<>>)

\* C7: every predictor returns 'no data', and raises nothing, when the
\* target system / charge / basis set combination is absent from the data.
C7_AbsentTargetNoData ==
    (WellFormedCall /\ TargetAt(call.target_label, CalledCharge, call.basis_set) = {})
    => NoData(result)

\* The predictors that do keep the missing-data contract.
C7_Witness ==
    /\ WellFormedCall
    /\ call.op = "mult_gap_qa_atom"
    /\ TargetAt(call.target_label, CalledCharge, call.basis_set) = {}
    /\ result = Dict(<<>>)

\* What energy_change_charge_qc_atom returns for the current call's
\* arguments with the given change_signs.
QcAtomWith(change_signs) ==
    energy_change_charge_qc_atom(df_qc, call.target_label, call.delta_charge,
        call.target_initial_charge, change_signs, call.basis_set, TRUE)

\* C8 as stated: for a delta_charge of either sign, the call with
\* change_signs = True returns the negation of what the same call with
\* change_signs = False returns.
C8_SignFlipEitherSign ==
    (QcAtomCalled /\ IsAtomTable(df_qc) /\ call.delta_charge # 0 /\ call.change_signs)
    => /\ ~IsRaise(QcAtomWith(FALSE))
       /\ result = Negated(QcAtomWith(FALSE))

\* C8, amended: for a positive delta_charge, the call with change_signs =
\* True returns the negation of what the same call with change_signs = False
\* returns (NaN for NaN); neither call raises on a table of atoms.
C8_SignFlipPositive ==
    (QcAtomCalled /\ IsAtomTable(df_qc) /\ call.delta_charge > 0 /\ call.change_signs)
    => /\ ~IsRaise(QcAtomWith(FALSE))
       /\ ~IsRaise(result)
       /\ result = Negated(QcAtomWith(FALSE))

\* A sign flip of a value that is not zero.
C8_Witness ==
    /\ QcAtomCalled
    /\ call.delta_charge > 0
    /\ call.change_signs
    /\ QcAtomWith(FALSE) = Float(14)
    /\ result = Float(-14)

(***************************************************************************)
(* The references of the current call of an alchemical predictor,          *)
(* described by sets of rows of the QATS table.                            *)
(***************************************************************************)
Alchemical ==
    {"energy_change_charge_qa_atom", "energy_change_charge_qa_dimer", "mult_gap_qa_atom"}

MultGapCalled == call.op = "mult_gap_qa_atom"

QaDimerCalled == call.op = "energy_change_charge_qa_dimer"

\* The target's rows and its ground state.
TargetRows == TargetAt(call.target_label, CalledCharge, call.basis_set)

TargetRow == GroundOf(TargetRows)

\* The call finds its target: two states for a multiplicity gap, a curve of
\* the ground state and a final state for a dimer, a state for an atom.
TargetResolved ==
    IF MultGapCalled THEN Cardinality(TargetRows) >= 2
    ELSE IF QaDimerCalled
    THEN /\ TargetRows # {}
         /\ Cardinality({r \in TargetRows : r.multiplicity = TargetRow.multiplicity}) > 1
         /\ FinalEndpoint # {}
    ELSE TargetRows # {}

InitialCount == TargetRow.n_electrons

FinalCount == IF MultGapCalled THEN InitialCount ELSE InitialCount - call.delta_charge

\* The QATS rows of system s with n electrons in the call's basis set.
RefRows(s, n) ==
    {r \in Range(df_qats) : /\ r.system = s
                            /\ r.n_electrons = n
                            /\ r.basis_set = call.basis_set}

\* For a dimer the references are the rows with the multiplicity of the
\* target's ground state.
InitialRefRows(s) ==
    IF QaDimerCalled
    THEN {r \in RefRows(s, InitialCount) : r.multiplicity = TargetRow.multiplicity}
    ELSE RefRows(s, InitialCount)

FinalRefRows(s) ==
    IF QaDimerCalled
    THEN {r \in RefRows(s, FinalCount) :
              r.multiplicity = GroundOf(FinalEndpoint).multiplicity}
    ELSE RefRows(s, FinalCount)

RefSystems == {r.system : r \in Range(df_qats)} \ {call.target_label}

\* The references that survive the selection: the other systems with rows
\* at both electron counts.  A multiplicity gap needs two reference rows.
Surviving ==
    IF ~(call.op \in Alchemical /\ WellFormedCall /\ TargetResolved) THEN {}
    ELSE IF MultGapCalled
            /\ Cardinality(UNION {RefRows(s, InitialCount) : s \in RefSystems}) < 2
    THEN {}
    ELSE {s \in RefSystems : InitialRefRows(s) # {} /\ RefRows(s, FinalCount) # {}}

\* The first of the given rows in the order of the table.
FirstIn(df, rows) ==
    df[CHOOSE i \in DOMAIN df : df[i] \in rows /\ \A j \in 1..(i - 1) : df[j] \notin rows]

\* The first excited state among rows; the only row if there is one row.
ExcitedOf(rows) ==
    IF Cardinality(rows) = 1 THEN GroundOf(rows) ELSE GroundOf(rows \ {GroundOf(rows)})

InitialRef(s) ==
    IF QaDimerCalled THEN FirstIn(df_qats, InitialRefRows(s)) ELSE GroundOf(InitialRefRows(s))

FinalRef(s) ==
    IF QaDimerCalled THEN FirstIn(df_qats, FinalRefRows(s))
    ELSE IF MultGapCalled THEN ExcitedOf(FinalRefRows(s))
    ELSE GroundOf(FinalRefRows(s))

\* The lambda from a reference row to the target, under the call's policy.
RefLambda(ref) ==
    IF QaDimerCalled
    THEN get_lambda_value(ref.atomic_numbers, TargetRow.atomic_numbers,
                          call.lambda_specific_atom, call.lambda_direction)
    ELSE get_lambda_value(ref.atomic_numbers, TargetRow.atomic_numbers, None, None)

\* Reference s has one lambda from its initial row and another from its
\* final row.
Mismatched(s) ==
    /\ FinalRefRows(s) # {}
    /\ RefLambda(InitialRef(s)).ok
    /\ RefLambda(FinalRef(s)).ok
    /\ RefLambda(InitialRef(s)).val # RefLambda(FinalRef(s)).val

\* The position of system s in the QATS table.
FirstRowOf(s) == CHOOSE i \in DOMAIN df_qats :
                    df_qats[i].system = s /\ \A j \in 1..(i - 1) : df_qats[j].system # s

\* C9: in every alchemical predictor, a surviving reference whose lambda
\* from its initial row differs from the lambda from its final row makes
\* the whole call fail: no mapping is returned, whatever the other
\* references are and whether or not the allow-list holds the lambda.
C9_LambdaMismatchFatal ==
    (\E s \in Surviving : Mismatched(s)) => IsRaise(result)

\* A mismatched reference that comes after a consistent one, and that the
\* allow-list would have skipped.
C9_Witness ==
    /\ call.op = "energy_change_charge_qa_atom"
    /\ call.considered_lambdas = Some({1})
    /\ \E s1, s2 \in Surviving :
          /\ ~Mismatched(s1)
          /\ RefLambda(InitialRef(s1)).val = 1
          /\ Mismatched(s2)
          /\ RefLambda(InitialRef(s2)).val = -1
          /\ FirstRowOf(s1) < FirstRowOf(s2)
    /\ result = Raise("AssertionError")

\* The same in the two other predictors.
C9_WitnessMultGap ==
    /\ MultGapCalled
    /\ \E s \in Surviving : Mismatched(s)
    /\ result = Raise("AssertionError")

C9_WitnessDimer ==
    /\ QaDimerCalled
    /\ \E s1, s2 \in Surviving : ~Mismatched(s1) /\ Mismatched(s2)
    /\ result = Raise("AssertionError")

\* What the current call's predictor returns for the call's arguments with
\* the given allow-list.
AlchemicalWith(considered_lambdas) ==
    IF MultGapCalled
    THEN mult_gap_qa_atom(df_qc, df_qats, call.target_label, call.target_charge,
             call.basis_set, call.use_ts, TRUE, considered_lambdas,
             call.return_qats_vs_qa)
    ELSE IF QaDimerCalled
    THEN energy_change_charge_qa_dimer(df_qc, df_qats, call.target_label,
             call.delta_charge, call.target_initial_charge, call.change_signs,
             call.basis_set, call.use_ts, call.lambda_specific_atom,
             call.lambda_direction, call.poly_order, 2, FALSE, ZscoreUnused, considered_lambdas,
             call.return_qats_vs_qa, 0, call.ties)
    ELSE energy_change_charge_qa_atom(df_qc, df_qats, call.target_label,
             call.delta_charge, call.target_initial_charge, call.change_signs,
             call.basis_set, call.use_ts, TRUE, considered_lambdas,
             call.return_qats_vs_qa)

\* The lambda of reference s is on the call's allow-list.
Allowed(s) ==
    \/ call.considered_lambdas = None
    \/ RefLambda(InitialRef(s)).val \in call.considered_lambdas[1]

\* C10: the mapping an alchemical predictor returns has a key for a
\* surviving reference exactly if the reference's lambda is on the
\* allow-list, or if there is no allow-list; and leaving references out
\* raises nothing: where the call without allow-list returns a mapping, the
\* call with the allow-list returns that mapping restricted to the allowed
\* references.
C10_AllowList ==
    (call.op \in Alchemical)
    => /\ result.kind = "dict"
          => DOMAIN result.map = {s \in Surviving : Allowed(s)}
       /\ (call.considered_lambdas # None /\ AlchemicalWith(None).kind = "dict")
          => /\ result.kind = "dict"
             /\ \A s \in DOMAIN result.map : result.map[s] = AlchemicalWith(None).map[s]

\* An allow-list that keeps one surviving reference and leaves one out.
C10_Witness ==
    /\ call.op = "energy_change_charge_qa_atom"
    /\ call.considered_lambdas = Some({-1})
    /\ Cardinality(Surviving) = 2
    /\ result.kind = "dict"
    /\ DOMAIN result.map = {"o"}
    /\ DOMAIN AlchemicalWith(None).map = {"c", "o"}

C10_WitnessMultGap ==
    /\ MultGapCalled
    /\ call.considered_lambdas = Some({1})
    /\ Cardinality(Surviving) = 2
    /\ result.kind = "dict"
    /\ DOMAIN result.map = {"c"}

C10_WitnessDimer ==
    /\ QaDimerCalled
    /\ call.considered_lambdas = Some({1})
    /\ Cardinality(Surviving) = 2
    /\ result.kind = "dict"
    /\ DOMAIN result.map = {"n.h"}

(***************************************************************************)
(* The values of the mapping an alchemical predictor returns.              *)
(***************************************************************************)
QaAtomCalled == call.op = "energy_change_charge_qa_atom"

\* +1, or -1 when the call negates its differences.
SignOfCall == IF "change_signs" \in DOMAIN call /\ call.change_signs THEN -1 ELSE 1

\* The coefficients of the reference's initial and final row both reach
\* degree k.
HasOrder(s, k) ==
    k < Len(InitialRef(s).poly_coeffs) /\ k < Len(FinalRef(s).poly_coeffs)

\* The order-k Taylor prediction of the energy difference from reference s:
\* both rows' series truncated at degree k and evaluated at the reference's
\* lambda.
OrderPrediction(s, k) ==
    SignOfCall
    * (SumTo(FinalRef(s).poly_coeffs, k + 1, RefLambda(FinalRef(s)).val)
       - SumTo(InitialRef(s).poly_coeffs, k + 1, RefLambda(InitialRef(s)).val))

\* C11: every value of the mapping energy_change_charge_qa_atom returns is a
\* sequence of length 1 in direct-lookup mode and of length equal to the
\* number of polynomial coefficients of the reference in Taylor mode,
\* return_qats_vs_qa included, and index k holds the order-k prediction:
\* every index k is an order that both rows of the reference have, and in
\* Taylor mode the entry is the difference of the two rows' series
\* truncated at order k.  The number of coefficients of the reference is
\* read as the code reads it, from the initial-state row.
C11_ValueLengths ==
    (QaAtomCalled /\ result.kind = "dict")
    => \A s \in DOMAIN result.map :
          /\ ~call.use_ts => Len(result.map[s]) = 1
          /\ call.use_ts
             => /\ Len(result.map[s]) = Len(InitialRef(s).poly_coeffs)
                /\ \A k \in 0..(Len(result.map[s]) - 1) :
                      /\ HasOrder(s, k)
                      /\ ~call.return_qats_vs_qa
                         => result.map[s][k + 1] = OrderPrediction(s, k)

\* Taylor mode with two references.  Both rows of reference o have three
\* coefficients and every index holds the prediction of its order; the
\* final-state row of reference c has two coefficients and the value has
\* three entries, the last one the order-2 series of the initial-state row
\* against the order-1 series of the final-state row.
C11_Witness ==
    /\ QaAtomCalled
    /\ call.use_ts /\ ~call.return_qats_vs_qa /\ ~call.change_signs
    /\ result.kind = "dict"
    /\ DOMAIN result.map = {"c", "o"}
    /\ result.map["o"] = <<15, 13, 13>>
    /\ \A k \in 0..2 : HasOrder("o", k) /\ result.map["o"][k + 1] = OrderPrediction("o", k)
    /\ Len(InitialRef("c").poly_coeffs) = 3
    /\ Len(FinalRef("c").poly_coeffs) = 2
    /\ result.map["c"] = <<7, 13, 15>>

\* Direct-lookup mode: one value per reference.
C11_WitnessLookup ==
    /\ QaAtomCalled
    /\ ~call.use_ts
    /\ result.kind = "dict"
    /\ "c" \in DOMAIN result.map
    /\ Len(result.map["c"]) = 1

\* What the current call's predictor returns for the call's arguments in
\* the given mode.
AlchemicalMode(use_ts, return_qats_vs_qa) ==
    IF MultGapCalled
    THEN mult_gap_qa_atom(df_qc, df_qats, call.target_label, call.target_charge,
             call.basis_set, use_ts, TRUE, call.considered_lambdas, return_qats_vs_qa)
    ELSE IF QaDimerCalled
    THEN energy_change_charge_qa_dimer(df_qc, df_qats, call.target_label,
             call.delta_charge, call.target_initial_charge, call.change_signs,
             call.basis_set, use_ts, call.lambda_specific_atom,
             call.lambda_direction, call.poly_order, 2, FALSE, ZscoreUnused,
             call.considered_lambdas, return_qats_vs_qa, 0, call.ties)
    ELSE energy_change_charge_qa_atom(df_qc, df_qats, call.target_label,
             call.delta_charge, call.target_initial_charge, call.change_signs,
             call.basis_set, use_ts, TRUE, call.considered_lambdas,
             return_qats_vs_qa)

\* Taylor prediction minus looked-up value: a number for atoms, a term for
\* dimers.
TaylorMinusLookup(taylor, lookup) ==
    IF QaDimerCalled THEN [taylor |-> taylor, minus |-> lookup] ELSE taylor - lookup

\* C12: a call with return_qats_vs_qa = True fails unless use_ts = True; with
\* use_ts = True it returns a mapping exactly when both the Taylor-mode call
\* and the lookup-mode call with the same arguments do, and the value of
\* every reference is then, for every order k, the Taylor-mode value of
\* order k minus the one lookup-mode value of that reference.
C12_TaylorMinusLookup ==
    (call.op \in Alchemical /\ call.return_qats_vs_qa)
    => /\ ~call.use_ts => IsRaise(result)
       /\ call.use_ts
          => /\ result.kind = "dict"
                <=> /\ AlchemicalMode(TRUE, FALSE).kind = "dict"
                    /\ AlchemicalMode(FALSE, FALSE).kind = "dict"
             /\ result.kind = "dict"
                => /\ DOMAIN result.map = DOMAIN AlchemicalMode(TRUE, FALSE).map
                   /\ DOMAIN result.map = DOMAIN AlchemicalMode(FALSE, FALSE).map
                   /\ \A s \in DOMAIN result.map :
                         /\ Len(AlchemicalMode(FALSE, FALSE).map[s]) = 1
                         /\ Len(result.map[s]) = Len(AlchemicalMode(TRUE, FALSE).map[s])
                         /\ \A k \in DOMAIN result.map[s] :
                               result.map[s][k] =
                                   TaylorMinusLookup(
                                       AlchemicalMode(TRUE, FALSE).map[s][k],
                                       AlchemicalMode(FALSE, FALSE).map[s][1])

\* A difference that is not the Taylor prediction: 13 - 14 at order 1 from
\* carbon, with the sign flipped on both sides.
C12_Witness ==
    /\ QaAtomCalled
    /\ call.return_qats_vs_qa /\ call.use_ts /\ call.change_signs
    /\ call.delta_charge = 1
    /\ result.kind = "dict"
    /\ "c" \in DOMAIN result.map
    /\ AlchemicalMode(TRUE, FALSE).map["c"] = <<-7, -13, -15>>
    /\ AlchemicalMode(FALSE, FALSE).map["c"] = <<-12>>
    /\ result.map["c"] = <<5, -1, -3>>

C12_WitnessMultGap ==
    /\ MultGapCalled
    /\ call.return_qats_vs_qa /\ call.use_ts
    /\ result.kind = "dict"
    /\ \E s \in DOMAIN result.map : result.map[s] # AlchemicalMode(TRUE, FALSE).map[s]

C12_WitnessDimer ==
    /\ QaDimerCalled
    /\ call.return_qats_vs_qa /\ call.use_ts
    /\ result.kind = "dict"
    /\ DOMAIN result.map # {}

(***************************************************************************)
(* The references that reach the prediction loop.                          *)
(***************************************************************************)
ChargeChangeCalled ==
    call.op \in {"energy_change_charge_qa_atom", "energy_change_charge_qa_dimer"}

\* The systems other than the target that have QATS rows in the call's
\* basis set at exactly one of the two electron counts.
OneEndpoint ==
    {s \in RefSystems : (RefRows(s, InitialCount) = {}) # (RefRows(s, FinalCount) = {})}

\* What the current call's predictor returns for the call's arguments on
\* the given QATS table.
ChargeChangeOn(qats) ==
    IF QaDimerCalled
    THEN energy_change_charge_qa_dimer(df_qc, qats, call.target_label,
             call.delta_charge, call.target_initial_charge, call.change_signs,
             call.basis_set, call.use_ts, call.lambda_specific_atom,
             call.lambda_direction, call.poly_order, 2, FALSE, ZscoreUnused,
             call.considered_lambdas, call.return_qats_vs_qa, 0, call.ties)
    ELSE energy_change_charge_qa_atom(df_qc, qats, call.target_label,
             call.delta_charge, call.target_initial_charge, call.change_signs,
             call.basis_set, call.use_ts, TRUE, call.considered_lambdas,
             call.return_qats_vs_qa)

\* C13: every key of the mapping energy_change_charge_qa_atom and
\* energy_change_charge_qa_dimer return is a system other than the target
\* with QATS rows in the call's basis set at both the initial and the final
\* electron count of the target; a system with rows at one of the two counts
\* only has no influence on the call: the call returns a mapping exactly if
\* it does on the table without that system's rows, and the same mapping.
C13_BothEndpoints ==
    (ChargeChangeCalled /\ WellFormedCall /\ TargetResolved)
    => /\ result.kind = "dict"
          => \A s \in DOMAIN result.map :
                /\ s # call.target_label
                /\ RefRows(s, InitialCount) # {}
                /\ RefRows(s, FinalCount) # {}
       /\ result.kind = "dict"
          <=> ChargeChangeOn(SelectSeq(df_qats, LAMBDA r : r.system \notin OneEndpoint)).kind
                  = "dict"
       /\ result.kind = "dict"
          => result = ChargeChangeOn(SelectSeq(df_qats, LAMBDA r : r.system \notin OneEndpoint))

\* Carbon has rows at the initial electron count only and is left out;
\* oxygen has rows at both and is predicted from.
C13_Witness ==
    /\ QaAtomCalled /\ WellFormedCall /\ TargetResolved
    /\ OneEndpoint = {"c"}
    /\ RefRows("c", InitialCount) # {}
    /\ result.kind = "dict"
    /\ DOMAIN result.map = {"o"}

\* The same for a dimer, on a table that also holds rows of the target.
C13_WitnessDimer ==
    /\ QaDimerCalled /\ WellFormedCall /\ TargetResolved
    /\ OneEndpoint = {"f.h"}
    /\ RefRows(call.target_label, InitialCount) # {}
    /\ RefRows(call.target_label, FinalCount) # {}
    /\ result.kind = "dict"
    /\ DOMAIN result.map = {"n.h"}

\* The target has QATS rows of its own at both counts.
C13_WitnessTarget ==
    /\ QaAtomCalled /\ WellFormedCall /\ TargetResolved
    /\ RefRows(call.target_label, InitialCount) # {}
    /\ RefRows(call.target_label, FinalCount) # {}
    /\ result.kind = "dict"
    /\ DOMAIN result.map = {"c", "o"}

\* Reference s has a different number of rows in the initial-state table
\* than in the final-state table.  For atoms both tables hold the one row
\* select_state picks; for dimers they hold the rows of every bond length.
RowCountMismatch(s) ==
    IF QaDimerCalled
    THEN Cardinality(InitialRefRows(s)) # Cardinality(FinalRefRows(s))
    ELSE Cardinality({InitialRef(s)}) # Cardinality({FinalRef(s)})

\* C14: if some surviving reference system has a different number of
\* initial-state rows than of final-state rows, the alchemical predictor
\* fails: it returns no mapping.
C14_RowCountMismatchFatal ==
    (\E s \in Surviving : RowCountMismatch(s)) => IsRaise(result)

\* One reference with a missing row: the totals differ and the call fails.
C14_Witness ==
    /\ QaDimerCalled
    /\ Cardinality({s \in Surviving : RowCountMismatch(s)}) = 1
    /\ result = Raise("AssertionError")

\* Neither lambda_specific_atom nor lambda_direction is given.
NoLambdaPolicy == call.lambda_specific_atom = None /\ call.lambda_direction = None

\* C15: a call of energy_change_charge_qa_dimer with lambda_specific_atom and
\* lambda_direction both None fails, on every table and with every other
\* argument: it returns no prediction.
C15_NoLambdaPolicyFatal ==
    (QaDimerCalled /\ NoLambdaPolicy) => IsRaise(result)

\* A call that fails for the missing policy alone: with lambda_specific_atom
\* given, the same call returns a mapping.
C15_Witness ==
    /\ QaDimerCalled /\ NoLambdaPolicy
    /\ IsDimerTable(df_qc)
    /\ result = Raise("AssertionError")
    /\ energy_change_charge_qa_dimer(df_qc, df_qats, call.target_label,
           call.delta_charge, call.target_initial_charge, call.change_signs,
           call.basis_set, call.use_ts, Some(0), None, call.poly_order, 2, FALSE, ZscoreUnused,
           call.considered_lambdas, call.return_qats_vs_qa, 0, call.ties).kind = "dict"

(***************************************************************************)
(* Properties of _dimer_curve and dimer_minimum, checked under SpecTaylor. *)
(***************************************************************************)
DimerCurveCalled == call.op = "_dimer_curve"

\* The rows the curve is built from: in lookup mode with a lambda value,
\* the rows at that lambda.
CurveInput ==
    IF ~call.use_ts /\ call.lambda_value # None
    THEN SelectSeq(call.df, LAMBDA r : r.lambda_value = call.lambda_value[1])
    ELSE call.df

\* The energy of a row: looked up, or its Taylor series evaluated at the
\* call's order and lambda.
CurveEnergy(r) ==
    IF call.use_ts
    THEN SumTo(r.poly_coeffs, call.qats_order[1] + 1, call.lambda_value[1])
    ELSE r.electronic_energy

\* The dataframe and the arguments pass the assertions of _dimer_curve.
CurveArgsValid ==
    /\ \A i, j \in DOMAIN call.df :
          /\ call.df[i].system = call.df[j].system
          /\ call.df[i].charge = call.df[j].charge
          /\ call.df[i].multiplicity = call.df[j].multiplicity
    /\ Len(call.df[1].atomic_numbers) = 2
    /\ IF call.use_ts
       THEN "poly_coeffs" \in DOMAIN call.df[1] /\ call.qats_order # None
       ELSE "electronic_energy" \in DOMAIN call.df[1] /\ call.qats_order = None

RowOrders(n) == {p \in [1..n -> 1..n] : \A i, j \in 1..n : i # j => p[i] # p[j]}

\* C17: _dimer_curve returns two sequences of equal length with one entry
\* for every row of the dataframe (in lookup mode with a lambda value: for
\* every row at that lambda), the bond lengths ascending, and energies[i]
\* the energy (looked up, or the Taylor series at the given order and
\* lambda) of the row whose bond length is bond_lengths[i]: the output is a
\* permutation of the rows.
C17_CurveIsSortedPermutation ==
    DimerCurveCalled
    => /\ CurveArgsValid <=> result.kind = "curve"
       /\ result.kind = "curve"
          => /\ Len(result.bond_lengths) = Len(CurveInput)
             /\ Len(result.energies) = Len(CurveInput)
             /\ \A i, j \in DOMAIN result.bond_lengths :
                   i < j => result.bond_lengths[i] <= result.bond_lengths[j]
             /\ \E p \in RowOrders(Len(CurveInput)) :
                   \A i \in DOMAIN CurveInput :
                       /\ result.bond_lengths[i] = CurveInput[p[i]].bond_length
                       /\ result.energies[i] = CurveEnergy(CurveInput[p[i]])

\* A lookup curve of unsorted rows at two lambda values: the rows at lambda
\* 1 are kept and sorted.
C17_Witness ==
    /\ DimerCurveCalled
    /\ ~call.use_ts /\ call.lambda_value = Some(1)
    /\ Len(call.df) = 3
    /\ "lambda_value" \in DOMAIN call.df[1]
    /\ call.df[1].bond_length = 3 /\ call.df[1].lambda_value = 1
    /\ call.df[2].lambda_value = 0
    /\ call.df[3].bond_length = 1 /\ call.df[3].lambda_value = 1
    /\ result.kind = "curve"
    /\ result.bond_lengths = <<1, 3>>
    /\ result.energies = <<-69, -49>>

\* Two rows of equal bond length under a tie-break that puts the second
\* row first.
C17_WitnessTies ==
    /\ DimerCurveCalled
    /\ ~call.use_ts /\ call.lambda_value = None
    /\ Len(call.df) = 2
    /\ "lambda_value" \in DOMAIN call.df[1]
    /\ call.df[1].bond_length = call.df[2].bond_length
    /\ call.ties = 1
    /\ result.kind = "curve"
    /\ result.energies = <<call.df[2].electronic_energy, call.df[1].electronic_energy>>

\* A Taylor curve of unsorted rows.
C17_WitnessTaylor ==
    /\ DimerCurveCalled
    /\ call.use_ts /\ call.qats_order = Some(1) /\ call.lambda_value = Some(1)
    /\ Len(call.df) = 3
    /\ call.df[1].bond_length = 2
    /\ call.df[2].bond_length = 3
    /\ result.kind = "curve"
    /\ result.bond_lengths = <<1, 2, 3>>
    /\ result.energies = <<-68, -68, -68>>

DimerMinimumCalled == call.op = "dimer_minimum"

\* The curve holds a sample of energy +1000, and its position.
HasSpike == \E i \in DOMAIN call.energies : call.energies[i] = 1000

SpikeIndex == CHOOSE i \in DOMAIN call.energies : call.energies[i] = 1000

\* s without its i-th element.
DropAt(s, i) == [k \in 1..(Len(s) - 1) |-> IF k < i THEN s[k] ELSE s[k + 1]]

\* What dimer_minimum returns for the curve without the +1000 sample, with
\* the call's other arguments.
SmoothMinimum ==
    dimer_minimum(DropAt(call.bond_lengths, SpikeIndex), DropAt(call.energies, SpikeIndex),
                  call.n_points, call.poly_order, call.remove_outliers, call.zscore)

\* The call returns what it returns for the curve without the +1000 sample.
SpikeIgnored ==
    IF SmoothMinimum.ok
    THEN result.kind = "minimum" /\ result.eq = SmoothMinimum.eq
    ELSE IsRaise(result)

\* The +1000 sample is among the samples the returned minimum was fitted to.
SpikeFitted ==
    /\ result.kind = "minimum"
    /\ \E k \in DOMAIN result.eq.window : result.eq.window[k][2] = 1000

\* C19: with remove_outliers = True (and the cutoff 3.0), for a smooth curve
\* of any number of samples, 5 to 10 included, with one sample of energy
\* +1000 inserted, the equilibrium finder discards that sample and returns
\* the equilibrium of the curve without it.
C19_SpikeIgnoredAnyLength ==
    (DimerMinimumCalled /\ call.remove_outliers /\ HasSpike) => SpikeIgnored

\* A curve of 5 samples with the +1000 sample inserted next to the lowest
\* one: under every convention of the z-score all 6 samples are kept, the
\* +1000 sample is fitted, and the minimum is not that of the 5 samples.
C19_Witness ==
    /\ DimerMinimumCalled /\ call.remove_outliers /\ HasSpike
    /\ call.bond_lengths = <<2, 4, 5, 6, 8, 10>>
    /\ call.energies = <<-72, -75, 1000, -76, -75, -72>>
    /\ call.n_points = 2 /\ call.poly_order = 4
    /\ \A zscore \in ZscoreKinds :
          KeptIndices(call.energies, TRUE, zscore) = <<1, 2, 3, 4, 5, 6>>
    /\ SpikeFitted
    /\ result.eq.window = <<<<4, -75>>, <<5, 1000>>, <<6, -76>>, <<8, -75>>, <<10, -72>>>>
    /\ SmoothMinimum.ok
    /\ SmoothMinimum.eq.window
           = <<<<2, -72>>, <<4, -75>>, <<6, -76>>, <<8, -75>>, <<10, -72>>>>

\* A curve of 10 samples with the +1000 sample inserted next to the lowest
\* one, the standard deviation taken over n: the sample is discarded and
\* the minimum is that of the 10 samples.
C19_WitnessDiscarded ==
    /\ DimerMinimumCalled /\ call.remove_outliers /\ HasSpike
    /\ Len(call.energies) = 11
    /\ call.zscore.ddof = 0
    /\ call.n_points = 2 /\ call.poly_order = 4
    /\ SpikeIndex = 6 /\ call.energies[5] = -76
    /\ result.kind = "minimum"
    /\ result.eq.window = <<<<6, -72>>, <<8, -75>>, <<10, -76>>, <<12, -75>>, <<14, -72>>>>
    /\ SpikeIgnored

\* The same curve, the standard deviation taken over n - 1: the z-score of
\* the +1000 sample stays below 3.0 and the sample is fitted.
C19_WitnessSampleDeviation ==
    /\ DimerMinimumCalled /\ call.remove_outliers /\ HasSpike
    /\ Len(call.energies) = 11
    /\ call.zscore.ddof = 1
    /\ SpikeIndex = 6 /\ call.energies[5] = -76
    /\ call.n_points = 2 /\ call.poly_order = 4
    /\ SpikeFitted
    /\ ~SpikeIgnored

\* A steep curve of 10 samples, whose own energies spread beyond +1000:
\* the inserted sample is fitted under every convention.
C19_WitnessSteep ==
    /\ DimerMinimumCalled /\ call.remove_outliers /\ HasSpike
    /\ Len(call.energies) = 11
    /\ \E i \in DOMAIN call.energies : call.energies[i] > 1000
    /\ \A zscore \in ZscoreKinds :
          Len(KeptIndices(call.energies, TRUE, zscore)) = 11
    /\ SpikeFitted
    /\ ~SpikeIgnored

(***************************************************************************)
(* The Taylor mode of the dimer predictors: one curve and one minimum per  *)
(* order.                                                                  *)
(***************************************************************************)
DimerCurvesCalled == call.op \in {"dimer_bonding_curve", "dimer_eq"}

\* The rows of the target of a dimer_bonding_curve or dimer_eq call.
CurveTargetRows ==
    {r \in Range(df_qc) : r.system = call.target_label /\ r.charge = call.target_charge}

\* The QATS rows of system s with the target's electron count.
CurveRefRows(s) ==
    {r \in Range(df_qats) : /\ r.system = s
                            /\ r.basis_set = call.basis_set
                            /\ \E t \in CurveTargetRows : r.n_electrons = t.n_electrons}

\* The lambda from reference s to the target, at the first atom: the
\* atomic numbers of the first row of the reference decide.
CurveRefLambda(s) ==
    (CHOOSE t \in CurveTargetRows : TRUE).atomic_numbers[1]
    - FirstIn(df_qats, CurveRefRows(s)).atomic_numbers[1]

\* The samples of the curve of order k: every row of the reference
\* evaluated with its coefficients of degree 0..k only.
OrderPoints(rows, lam, k) ==
    {<<r.bond_length, SumTo(r.poly_coeffs, k + 1, lam)>> : r \in rows}

\* s runs through all of the points, by increasing bond length.
IsCurveOf(bond_lengths, energies, points) ==
    /\ Len(bond_lengths) = Cardinality(points)
    /\ Len(energies) = Len(bond_lengths)
    /\ \A i \in DOMAIN bond_lengths : <<bond_lengths[i], energies[i]>> \in points
    /\ \A i, j \in DOMAIN bond_lengths : i < j => bond_lengths[i] < bond_lengths[j]

\* eq is the minimum of the curve through the points: its fit is made on
\* neighbouring points of that curve around one of its lowest points.
IsMinimumOf(eq, points) ==
    /\ eq.window # <<>>
    /\ \A i \in DOMAIN eq.window : eq.window[i] \in points
    /\ \A i, j \in DOMAIN eq.window : i < j => eq.window[i][1] < eq.window[j][1]
    /\ \A p \in points :
          (eq.window[1][1] < p[1] /\ p[1] < eq.window[Len(eq.window)][1])
          => \E i \in DOMAIN eq.window : eq.window[i] = p
    /\ \E i \in DOMAIN eq.window : \A p \in points : eq.window[i][2] <= p[2]

\* The Taylor-series part of an entry of energy_change_charge_qa_dimer.
TaylorTerm(x) == IF "taylor" \in DOMAIN x THEN x.taylor ELSE x

\* The number of orders of a reference: the coefficients of its first row.
CurveOrders(s) == Len(FirstIn(df_qats, CurveRefRows(s)).poly_coeffs)

\* C16 for dimer_bonding_curve: in Taylor mode every reference of the result
\* has one curve per order k = 0 .. (number of coefficients - 1), and curve k
\* is every bond-length sample of the reference evaluated at order k.
TaylorCurvesPerOrder ==
    (call.op = "dimer_bonding_curve" /\ call.calc_type = "alchemy" /\ call.use_ts
     /\ result.kind = "dict")
    => \A s \in DOMAIN result.map :
          /\ Len(result.map[s].curves) = CurveOrders(s)
          /\ \A k \in DOMAIN result.map[s].curves :
                IsCurveOf(result.map[s].curves[k].bond_lengths,
                          result.map[s].curves[k].energies,
                          OrderPoints(CurveRefRows(s), CurveRefLambda(s),
                                      k - 1))

\* C16 for dimer_eq: one minimum per order, found on the curve of that order.
TaylorEqPerOrder ==
    (call.op = "dimer_eq" /\ call.calc_type = "alchemy" /\ call.use_ts
     /\ result.kind = "dict")
    => \A s \in DOMAIN result.map :
          /\ Len(result.map[s]) = CurveOrders(s)
          /\ \A k \in DOMAIN result.map[s] :
                IsMinimumOf(result.map[s][k],
                            OrderPoints(CurveRefRows(s), CurveRefLambda(s),
                                        k - 1))

\* C16 for energy_change_charge_qa_dimer: one entry per order, the
\* difference of the minima of the final and the initial curve of that order.
TaylorDiffPerOrder ==
    (QaDimerCalled /\ call.use_ts /\ result.kind = "dict")
    => \A s \in DOMAIN result.map :
          /\ Len(result.map[s]) = Len(InitialRef(s).poly_coeffs)
          /\ \A k \in DOMAIN result.map[s] :
                /\ IsMinimumOf(TaylorTerm(result.map[s][k]).initial,
                       OrderPoints(InitialRefRows(s), RefLambda(InitialRef(s)).val, k - 1))
                /\ IsMinimumOf(TaylorTerm(result.map[s][k]).final,
                       OrderPoints(FinalRefRows(s), RefLambda(FinalRef(s)).val, k - 1))

\* C16: in Taylor mode of the dimer predictors (energy_change_charge_qa_dimer,
\* dimer_bonding_curve and dimer_eq with use_ts) the curve of every reference
\* is rebuilt for every order k from 0 to the number of coefficients - 1,
\* every bond-length sample evaluated with the coefficients of degree <= k,
\* and its minimum is found on that curve: the result has one entry per order.
C16_CurvePerOrder ==
    /\ TaylorCurvesPerOrder
    /\ TaylorEqPerOrder
    /\ TaylorDiffPerOrder

\* The three predictors return entries of three orders whose curves differ.
C16_Witness ==
    /\ call.op = "dimer_eq" /\ call.calc_type = "alchemy" /\ call.use_ts
    /\ result.kind = "dict"
    /\ \E s \in DOMAIN result.map :
          /\ Len(result.map[s]) = 3
          /\ result.map[s][1] # result.map[s][2]
          /\ result.map[s][2] # result.map[s][3]

C16_WitnessCurve ==
    /\ call.op = "dimer_bonding_curve" /\ call.calc_type = "alchemy" /\ call.use_ts
    /\ result.kind = "dict"
    /\ \E s \in DOMAIN result.map :
          /\ Len(result.map[s].curves) = 3
          /\ result.map[s].curves[1].energies # result.map[s].curves[3].energies

C16_WitnessQaDimer ==
    /\ QaDimerCalled /\ call.use_ts
    /\ result.kind = "dict"
    /\ \E s \in DOMAIN result.map :
          /\ Len(result.map[s]) = 3
          /\ TaylorTerm(result.map[s][1]).initial # TaylorTerm(result.map[s][3]).initial

(***************************************************************************)
(* The order of the polynomial fits of the dimer operations.               *)
(***************************************************************************)
FitsPolynomials ==
    {"dimer_eq", "energy_change_charge_qc_dimer", "energy_change_charge_qa_dimer"}

\* The minima a difference of two minima is made of.
MinimaOfDiff(x) == {x.final, x.initial}

\* The minima an entry of a dictionary is made of.
MinimaOfEntry(x) ==
    IF "taylor" \in DOMAIN x THEN MinimaOfDiff(x.taylor) \cup MinimaOfDiff(x.minus)
    ELSE IF "final" \in DOMAIN x THEN MinimaOfDiff(x)
    ELSE {x}

\* Every minimum the current call has computed and returned.
MinimaOfResult ==
    IF result.kind = "float" THEN MinimaOfDiff(result.val)
    ELSE IF result.kind = "dict"
    THEN UNION {UNION {MinimaOfEntry(result.map[s][k]) : k \in DOMAIN result.map[s]} :
                    s \in DOMAIN result.map}
    ELSE {}

\* C18: every public dimer operation that accepts poly_order (dimer_eq,
\* energy_change_charge_qc_dimer, energy_change_charge_qa_dimer) fits the
\* window of every equilibrium it computes with a polynomial of exactly the
\* caller's poly_order.
C18_FitsWithCallersOrder ==
    call.op \in FitsPolynomials
    => \A eq \in MinimaOfResult : eq.order = call.poly_order

\* energy_change_charge_qc_dimer and dimer_eq fit with the caller's order 2.
C18_Witness ==
    /\ call.op = "energy_change_charge_qc_dimer"
    /\ call.poly_order = 2
    /\ result.kind = "float"
    /\ \A eq \in MinimaOfResult : eq.order = 2

C18_WitnessEq ==
    /\ call.op = "dimer_eq"
    /\ call.poly_order = 2
    /\ MinimaOfResult # {}
    /\ \A eq \in MinimaOfResult : eq.order = 2

(***************************************************************************)
(* The frame of the predictors.                                            *)
(***************************************************************************)
\* C20: every call of every predictor, whether it returns a value, returns
\* NaN or an empty mapping, or fails, leaves the quantum-chemistry table and
\* the QATS table with exactly the rows and values they had before the call,
\* also when change_signs negates the result.
C20_TablesUnchanged == [][df_qc' = df_qc /\ df_qats' = df_qats]_vars

\* A call has negated its result; the tables are tables of the start.
C20_Witness ==
    /\ call.op = "energy_change_charge_qc_atom"
    /\ call.change_signs
    /\ result.kind = "float"
    /\ result.val < 0
    /\ <<df_qc, df_qats>> \in AtomTables

\* A call has failed, and another has returned no prediction.
C20_WitnessRaise ==
    /\ call.op \in Alchemical
    /\ IsRaise(result)
    /\ <<df_qc, df_qats>> \in AtomTables \cup DimerTables

C20_WitnessEmpty ==
    /\ call.op \in Alchemical
    /\ result = Dict(<<>>)
    /\ <<df_qc, df_qats>> \in AtomTables \cup DimerTables

(***************************************************************************)
(* The order of the loop over the references.                              *)
(***************************************************************************)
AtomLoopCalled == call.op \in {"energy_change_charge_qa_atom", "mult_gap_qa_atom"}

\* The reference rows the loop of the current call for atoms runs over, and
\* the rows of their final states.
LoopInitial ==
    IF MultGapCalled
    THEN select_state(get_qa_refs(df_qc, df_qats, call.target_label, InitialCount,
                                  call.basis_set), 0, TRUE)
    ELSE select_state(
             WithSystemIn(get_qa_refs(df_qc, df_qats, call.target_label, InitialCount,
                                      call.basis_set),
                          AvailRefFinalSys(df_qats, call.target_label, FinalCount,
                                           call.basis_set)),
             0, TRUE)

LoopFinal ==
    IF MultGapCalled
    THEN select_state(get_qa_refs(df_qc, df_qats, call.target_label, InitialCount,
                                  call.basis_set), 1, TRUE)
    ELSE QaAtomFinalRefs(df_qc, df_qats, call.target_label, FinalCount, call.basis_set,
                         TRUE, LoopInitial)

\* The current call for atoms gets as far as its loop.
AtomLoopReached ==
    /\ AtomLoopCalled /\ WellFormedCall /\ TargetResolved
    /\ MultGapCalled
       => Len(get_qa_refs(df_qc, df_qats, call.target_label, InitialCount,
                          call.basis_set)) >= 2
    /\ LoopInitial.ok /\ LoopFinal.ok
    /\ Len(LoopInitial.rows) = Len(LoopFinal.rows)

\* The loop of the current call, the references taken in the order p.
AtomLoopIn(p) ==
    AtomLoop(df_qc, [i \in DOMAIN LoopInitial.rows |-> LoopInitial.rows[p[i]]],
             LoopFinal.rows, TargetRow.atomic_numbers,
             IF MultGapCalled THEN FALSE ELSE call.change_signs,
             call.basis_set, call.use_ts, call.considered_lambdas,
             call.return_qats_vs_qa)

\* The current call of energy_change_charge_qa_dimer, its set of references
\* iterated in the order hash_order selects.
QaDimerIn(hash_order) ==
    energy_change_charge_qa_dimer(df_qc, df_qats, call.target_label,
        call.delta_charge, call.target_initial_charge, call.change_signs,
        call.basis_set, call.use_ts, call.lambda_specific_atom,
        call.lambda_direction, call.poly_order, 2, FALSE, ZscoreUnused, call.considered_lambdas,
        call.return_qats_vs_qa, hash_order, call.ties)

\* Both fail, or both return the same mapping.
SameOutcome(a, b) == IsRaise(a) = IsRaise(b) /\ (~IsRaise(a) => a = b)

\* C21: the outcome of the loop over the references does not depend on the
\* order in which the references are processed: for every order of the
\* references the alchemical predictors return the same mapping, and fail
\* for one order exactly if they fail for every order.
C21_LoopOrderIndependent ==
    /\ AtomLoopReached
       => \A p \in RowOrders(Len(LoopInitial.rows)) : SameOutcome(AtomLoopIn(p), result)
    /\ QaDimerCalled
       => \A hash_order \in HashOrdersOf(df_qats) :
              SameOutcome(QaDimerIn(hash_order), result)

\* Two references in the loop, one skipped and one with an entry in the
\* result.
C21_Witness ==
    /\ AtomLoopReached
    /\ Len(LoopInitial.rows) = 2
    /\ call.considered_lambdas # None
    /\ result.kind = "dict"
    /\ Cardinality(DOMAIN result.map) = 1

\* A loop over several references that fails at one of them.
C21_WitnessRaise ==
    /\ AtomLoopReached
    /\ Len(LoopInitial.rows) >= 2
    /\ IsRaise(result)

C21_WitnessDimer ==
    /\ QaDimerCalled
    /\ result.kind = "dict"
    /\ Cardinality(DOMAIN result.map) >= 2

(***************************************************************************)
(* The sign convention of the two charge-change predictors.                *)
(***************************************************************************)
\* The current call of energy_change_charge_qa_dimer with the given
\* change_signs.
QaDimerSigned(change_signs) ==
    energy_change_charge_qa_dimer(df_qc, df_qats, call.target_label,
        call.delta_charge, call.target_initial_charge, change_signs,
        call.basis_set, call.use_ts, call.lambda_specific_atom,
        call.lambda_direction, call.poly_order, 2, FALSE, ZscoreUnused, call.considered_lambdas,
        call.return_qats_vs_qa, 0, call.ties)

\* -x for a difference of two minima.
NegatedDiff(x) == [x EXCEPT !.negated = ~x.negated]

\* -x for an entry of the mapping of energy_change_charge_qa_dimer.
NegatedEntry(x) ==
    IF "taylor" \in DOMAIN x
    THEN [taylor |-> NegatedDiff(x.taylor), minus |-> NegatedDiff(x.minus)]
    ELSE NegatedDiff(x)

\* Every element of every value of the mapping negated.
NegatedMapping(r) ==
    IF r.kind # "dict" THEN r
    ELSE Dict([s \in DOMAIN r.map |->
                  [k \in DOMAIN r.map[s] |-> NegatedEntry(r.map[s][k])]])

\* A call of a charge-change predictor on a table of its kind of system
\* with a (delta_charge, change_signs) pair the atomic predictor rejects.
SignsRejected ==
    /\ ChargeChangeCalled
    /\ IF QaDimerCalled THEN IsDimerTable(df_qc) ELSE IsAtomTable(df_qc)
    /\ ~Admissible(call.delta_charge, call.change_signs)

\* The dimer predictor negates every element exactly when change_signs.
DimerSignFlip ==
    (QaDimerCalled /\ call.delta_charge > 0 /\ call.change_signs)
    => /\ IsRaise(result) = IsRaise(QaDimerSigned(FALSE))
       /\ ~IsRaise(result) => result = NegatedMapping(QaDimerSigned(FALSE))

\* C22: energy_change_charge_qa_dimer applies the sign convention of
\* energy_change_charge_qa_atom: both reject delta_charge = 0, and
\* delta_charge < 0 without change_signs, and the dimer predictor negates
\* every returned element exactly when change_signs is True.
C22_SameSignConvention ==
    /\ SignsRejected => IsRaise(result)
    /\ DimerSignFlip

\* The atomic predictor rejects a negative delta_charge without change_signs
\* on a table that holds the target and its references.
C22_Witness ==
    /\ call.op = "energy_change_charge_qa_atom"
    /\ SignsRejected
    /\ call.delta_charge < 0
    /\ result = Raise("AssertionError")

\* The dimer predictor returns a mapping of negated elements.
C22_WitnessFlip ==
    /\ QaDimerCalled /\ call.delta_charge > 0 /\ call.change_signs
    /\ result.kind = "dict"
    /\ DOMAIN result.map # {}
    /\ result # QaDimerSigned(FALSE)

\* The dimer predictor accepts a negative delta_charge without change_signs.
C22_WitnessAccepted ==
    /\ QaDimerCalled
    /\ call.delta_charge < 0 /\ ~call.change_signs
    /\ result.kind = "dict"
    /\ DOMAIN result.map # {}

(***************************************************************************)
(* The lambda policy of dimer_bonding_curve and dimer_eq.                  *)
(***************************************************************************)
\* The references of a dimer_bonding_curve or dimer_eq call in Taylor mode.
CurveRefSystems ==
    {r.system : r \in {q \in Range(df_qats) :
         /\ q.system # call.target_label
         /\ q \in CurveRefRows(q.system)}}

\* The lambda from reference s to the target under the caller's policy:
\* the caller's specific_atom and the caller's direction.
CurvePolicyLambda(s) ==
    get_lambda_value(FirstIn(df_qats, CurveRefRows(s)).atomic_numbers,
                     (CHOOSE t \in CurveTargetRows : TRUE).atomic_numbers,
                     call.specific_atom, call.direction)

TaylorCurvesCalled ==
    DimerCurvesCalled /\ call.calc_type = "alchemy" /\ call.use_ts

\* C23: dimer_bonding_curve and dimer_eq with calc_type = 'alchemy' compute
\* the lambda of every reference under the caller's policy, specific_atom
\* and direction together: no lambda is missing that the policy determines,
\* and the Taylor curves are evaluated at the lambdas of the policy.
C23_LambdaUnderCallersPolicy ==
    TaylorCurvesCalled
    => /\ result = Raise("LambdaError")
          => \E s \in CurveRefSystems : ~CurvePolicyLambda(s).ok
       /\ (call.op = "dimer_bonding_curve" /\ result.kind = "dict")
          => \A s \in DOMAIN result.map :
                /\ CurvePolicyLambda(s).ok
                /\ \A k \in DOMAIN result.map[s].curves :
                      IsCurveOf(result.map[s].curves[k].bond_lengths,
                                result.map[s].curves[k].energies,
                                OrderPoints(CurveRefRows(s), CurvePolicyLambda(s).val,
                                            k - 1))

\* With a specific_atom the curves are those of the policy's lambdas.
C23_Witness ==
    /\ TaylorCurvesCalled
    /\ call.op = "dimer_bonding_curve"
    /\ call.specific_atom # None /\ call.direction # None
    /\ result.kind = "dict"
    /\ DOMAIN result.map # {}

\* With a direction alone the call finds no lambda.
C23_WitnessDirection ==
    /\ TaylorCurvesCalled
    /\ call.specific_atom = None /\ call.direction # None
    /\ CurveRefSystems # {}
    /\ \A s \in CurveRefSystems : CurvePolicyLambda(s).ok
    /\ result = Raise("LambdaError")

(***************************************************************************)
(* The multiplicity gap without data.                                      *)
(***************************************************************************)
MultGapQcCalled == call.op = "mult_gap_qc_atom"

\* The rows the resolver yields for a multiplicity gap: the QATS rows of
\* the other systems with the target's electron count.
MultGapRefRows == UNION {RefRows(s, InitialCount) : s \in RefSystems}

\* C24: mult_gap_qc_atom returns NaN exactly when the target has fewer than
\* two lambda = 0 rows at the charge and basis set, and otherwise the energy
\* of the first excited state minus the energy of the ground state of those
\* rows, which is not negative; mult_gap_qa_atom returns an empty mapping,
\* and raises nothing, when the target has fewer than two such rows or the
\* resolver yields fewer than two reference rows.
C24_MultGapNoData ==
    /\ (MultGapQcCalled /\ WellFormedCall)
       => IF Cardinality(TargetRows) < 2 THEN result = NaN
          ELSE /\ result = Float(RowEnergy(ExcitedOf(TargetRows))
                                 - RowEnergy(GroundOf(TargetRows)))
               /\ result.val >= 0
    /\ (MultGapCalled /\ WellFormedCall)
       => /\ Cardinality(TargetRows) < 2 => result = Dict(<<>>)
          /\ (Cardinality(TargetRows) >= 2 /\ Cardinality(MultGapRefRows) < 2)
             => result = Dict(<<>>)

\* A gap of two states, a target with one row, and a target with one
\* reference row.
C24_Witness ==
    /\ MultGapQcCalled /\ WellFormedCall
    /\ Cardinality(TargetRows) >= 2
    /\ result.kind = "float"
    /\ result.val > 0

C24_WitnessNaN ==
    /\ MultGapQcCalled /\ WellFormedCall
    /\ Cardinality(TargetRows) = 1
    /\ result = NaN

C24_WitnessOneReference ==
    /\ MultGapCalled /\ WellFormedCall
    /\ Cardinality(TargetRows) >= 2
    /\ Cardinality(MultGapRefRows) = 1
    /\ result = Dict(<<>>)

(***************************************************************************)
(* The order of the checks in the body of the loop.                        *)
(***************************************************************************)
\* The lambdas of reference s are defined and agree.
Consistent(s) ==
    /\ RefLambda(InitialRef(s)).ok
    /\ RefLambda(FinalRef(s)).ok
    /\ ~Mismatched(s)

\* The two reference tables of the current call have the same length.
SameLength ==
    Cardinality(UNION {InitialRefRows(s) : s \in Surviving})
    = Cardinality(UNION {FinalRefRows(s) : s \in Surviving})

\* A mismatched reference aborts the call although the allow-list would
\* have skipped it.
MismatchBeforeAllowList ==
    (\E s \in Surviving : Mismatched(s) /\ ~Allowed(s)) => IsRaise(result)

\* No prediction is worked on for a reference the allow-list skips: when
\* every reference is consistent and skipped the call returns the empty
\* mapping, whether or not a prediction of one of them would fail.
NoWorkBeforeChecks ==
    (/\ Surviving # {}
     /\ QaDimerCalled => SameLength
     /\ \A s \in Surviving : Consistent(s) /\ ~Allowed(s))
    => result = Dict(<<>>)

\* C25: for each reference the lambda-consistency check comes before the
\* allow-list: a reference whose initial and final lambdas differ aborts the
\* call even when its lambda is not on the allow-list, and no prediction
\* work for a reference starts before both checks have passed.
C25_ConsistencyBeforeAllowList ==
    /\ MismatchBeforeAllowList
    /\ NoWorkBeforeChecks

\* The only mismatched reference is one the allow-list leaves out.
C25_Witness ==
    /\ call.op \in Alchemical
    /\ call.considered_lambdas # None
    /\ \E s \in Surviving : Mismatched(s) /\ ~Allowed(s)
    /\ \A s \in Surviving : Mismatched(s) => ~Allowed(s)
    /\ result = Raise("AssertionError")

\* Every reference is skipped, and the prediction of one of them fails
\* when there is no allow-list.
C25_WitnessNoWork ==
    /\ call.op \in Alchemical
    /\ Surviving # {}
    /\ \A s \in Surviving : Consistent(s) /\ ~Allowed(s)
    /\ IsRaise(AlchemicalWith(None))
    /\ result = Dict(<<>>)

(***************************************************************************)
(* The orders of the Taylor mode of the predictors for atoms.              *)
(***************************************************************************)
AtomTaylorReturned ==
    /\ AtomLoopCalled
    /\ call.use_ts /\ ~call.return_qats_vs_qa
    /\ result.kind = "dict"

\* C26: in Taylor mode of the alchemical predictors for atoms, for every
\* reference and every index k of the returned sequence, the initial-state
\* and the final-state energy are both the Taylor series truncated at order
\* k, a sum of exactly k + 1 terms each, also when the two rows of the
\* reference have coefficient sequences of different lengths; the number of
\* orders returned is the number of coefficients of both rows.
C26_SameOrderBothEndpoints ==
    AtomTaylorReturned
    => \A s \in DOMAIN result.map :
          /\ Len(result.map[s]) = Len(InitialRef(s).poly_coeffs)
          /\ Len(result.map[s]) = Len(FinalRef(s).poly_coeffs)
          /\ \A k \in 0..(Len(result.map[s]) - 1) :
                /\ HasOrder(s, k)
                /\ result.map[s][k + 1] = OrderPrediction(s, k)

\* Rows of equal length: every index holds the prediction of its order.
C26_Witness ==
    /\ AtomTaylorReturned
    /\ MultGapCalled
    /\ \E s \in DOMAIN result.map :
          /\ Len(InitialRef(s).poly_coeffs) = 3
          /\ Len(FinalRef(s).poly_coeffs) = 3
          /\ \A k \in 0..2 : result.map[s][k + 1] = OrderPrediction(s, k)
          /\ result.map[s][1] # result.map[s][3]

\* A final-state row with fewer coefficients than the initial-state row: the
\* entry of the highest order pairs two different orders.
C26_WitnessShorterFinal ==
    /\ AtomTaylorReturned
    /\ \E s \in DOMAIN result.map :
          /\ Len(FinalRef(s).poly_coeffs) < Len(InitialRef(s).poly_coeffs)
          /\ Len(result.map[s]) = Len(InitialRef(s).poly_coeffs)

(***************************************************************************)
(* The basis set of the quantum-chemistry curve.                           *)
(***************************************************************************)
QcCurvesCalled == DimerCurvesCalled /\ call.calc_type = "qc"

\* The samples of the target's curve in the requested basis set.
BasisPoints ==
    {<<r.bond_length, r.electronic_energy>> :
        r \in TargetAt(call.target_label, call.target_charge, call.basis_set)}

\* pts are samples of the requested basis set, each bond length once.
FromBasisOnce(bond_lengths, energies) ==
    /\ \A i \in DOMAIN bond_lengths : <<bond_lengths[i], energies[i]>> \in BasisPoints
    /\ \A i, j \in DOMAIN bond_lengths : i < j => bond_lengths[i] < bond_lengths[j]

\* C27: the curve dimer_bonding_curve returns, and the equilibrium dimer_eq
\* returns, for calc_type = 'qc' is built only from quantum-chemistry rows of
\* the requested basis_set: rows of another basis set never enter the
\* curve, and each bond length appears at most once.
C27_QcCurveOfRequestedBasis ==
    (QcCurvesCalled /\ result.kind = "dict")
    => \A s \in DOMAIN result.map :
          IF call.op = "dimer_bonding_curve"
          THEN \A k \in DOMAIN result.map[s].curves :
                  FromBasisOnce(result.map[s].curves[k].bond_lengths,
                                result.map[s].curves[k].energies)
          ELSE \A k \in DOMAIN result.map[s] :
                  FromBasisOnce([i \in DOMAIN result.map[s][k].window |->
                                    result.map[s][k].window[i][1]],
                                [i \in DOMAIN result.map[s][k].window |->
                                    result.map[s][k].window[i][2]])

\* On a table of one basis set the curve is the target's curve.
C27_Witness ==
    /\ QcCurvesCalled
    /\ call.op = "dimer_bonding_curve"
    /\ \A r \in Range(df_qc) : r.basis_set = call.basis_set
    /\ result.kind = "dict"
    /\ DOMAIN result.map = {call.target_label}
    /\ Len(result.map[call.target_label].curves[1].bond_lengths) = 5

\* On the table of two basis sets two bond lengths are there twice.
C27_WitnessTwoBasisSets ==
    /\ QcCurvesCalled
    /\ call.op = "dimer_bonding_curve"
    /\ result.kind = "dict"
    /\ DOMAIN result.map = {call.target_label}
    /\ result.map[call.target_label].curves[1].bond_lengths
       = <<1, 2, 2, 3, 4, 4, 5>>

\* The same curve under a tie-break that puts the other basis set first.
C27_WitnessTies ==
    /\ QcCurvesCalled
    /\ call.op = "dimer_bonding_curve"
    /\ call.ties = 1
    /\ result.kind = "dict"
    /\ DOMAIN result.map = {call.target_label}
    /\ result.map[call.target_label].curves[1].energies
       = <<-72, -69, -75, -76, -75, -69, -72>>

====
